---- MODULE Spec2Model ----
(***************************************************************************)
(* Model of the harvest pipeline (backend/src/services/harvest.py) and of  *)
(* the LDES publication pipeline (backend/src/services/ldes.py).           *)
(*                                                                         *)
(* The relational store is the three tables terms, term_fields and         *)
(* translations, each a sequence of rows whose id is the row's index (ids  *)
(* are assigned in insertion order and nothing here deletes a row).  The   *)
(* feed directory of one source is the set of its fragment files plus the  *)
(* latest pointer file.                                                    *)
(*                                                                         *)
(* Time is counted in ticks, TicksPerSec ticks to the second: the store    *)
(* keeps sub-second times, while fragment names, the modification strings  *)
(* written into records and SQLite's datetime() keep whole seconds only.   *)
(* Host and store are taken to use the same time zone.                     *)
(***************************************************************************)
EXTENDS Integers, Sequences, FiniteSets, TLC

VARIABLES
    now,            \* the wall clock, in ticks
    terms,          \* table terms: <<[uri, source_id, updated_at]>>
    term_fields,    \* table term_fields: <<[term_id, field_uri, original_value]>>
    translations,   \* table translations
    dir_exists,     \* the source's feed directory exists
    files,          \* the fragment files <epoch>.ttl of the directory
    latest,         \* latest.ttl: <<>> when absent, else <<content>>
    pc,             \* position of the publish run: "idle" or "written"
    fragment_file,  \* name of the fragment the running publish has written
    result,         \* status the last publish run ended with; "none" once
                    \* the store has changed since
    published,      \* history: every row version ever written into a fragment
    upstream,       \* the collection at the endpoint: the rows of the data
                    \* query in its ORDER BY order
    has_new_schema, \* table translations has the columns status and source
    hpc,            \* position of the harvest run: "idle" or "running"
    member_count,   \* the member count the running harvest has read
    offset,         \* OFFSET of the next batch of the running harvest
    stats,          \* the counts of the harvest summary, summed over the run
    harvested,      \* history: harvest runs started since upstream last
                    \* changed (counted up to 2)
    edits,          \* history: the number of changes made to upstream
    sources,        \* table sources: the row of the source that is published
    ldes_exit_code, \* exit code of the last publish process, NULL without one
    attempt,        \* attempt number of the running fetch, counted from 0
    io,             \* history: what the running harvest did outside itself,
                    \* in order
    exit_code,      \* exit code of the last harvest process, NULL while none
                    \* has ended
    collection_uri, \* argv[1] of the harvest: a sequence of characters
    db_exists,      \* the database file exists
    tables,         \* the tables the database has
    endpoint,       \* the responses the upstream endpoint may give
    feed,           \* what a GET of the source's feed description yields
    runs,           \* two publish processes for the same source, by position
    arg,            \* argument handed to a function applied on its own
    ret,            \* what it returned: [done, value], done FALSE before the call
    interrupted_at  \* history: OFFSET of the batch a harvest process was
                    \* killed at, NULL while none was killed

store_vars == <<terms, term_fields, translations, sources>>
feed_vars == <<dir_exists, files, latest>>
publish_vars == <<pc, fragment_file, result, published, ldes_exit_code>>
harvest_vars ==
    <<upstream, has_new_schema, hpc, member_count, offset, stats, harvested, edits,
      attempt, io, exit_code>>
input_vars == <<collection_uri, db_exists, tables, endpoint, feed>>
other_vars == <<input_vars, runs, arg, ret, interrupted_at>>
vars == <<now, store_vars, feed_vars, publish_vars, harvest_vars, other_vars>>

----------------------------------------------------------------------------
(* Bounds *)

TicksPerSec == 2
MaxTime == 2
MaxRows == 2
MaxEdits == 1

NULL == -1

SourceId == 1
OtherSourceId == 2

Languages == {"es"}

NoStats ==
    [terms_inserted |-> 0, terms_updated |-> 0,
     term_fields_inserted |-> 0, originals_inserted |-> 0]

----------------------------------------------------------------------------
(* Time conversions *)

\* datetime.strftime("%Y-%m-%dT%H:%M:%SZ"), int(datetime.timestamp()) and
\* SQLite datetime(): the whole seconds of a time, the fraction dropped.
Seconds(t) == t \div TicksPerSec

\* datetime.strptime / rdflib toPython of a whole-second string: the time
\* that string denotes, in ticks.
FromSeconds(s) == s * TicksPerSec

Max(S) == CHOOSE x \in S : \A y \in S : y <= x

----------------------------------------------------------------------------
(* The store, as the publish queries read it *)

\* row['modified_at'] or row['created_at']
Coalesce(row) == IF row.modified_at # NULL THEN row.modified_at ELSE row.created_at

TermOf(row) == terms[term_fields[row.term_field_id].term_id]

RowIds == 1..Len(translations)

\* ReviewRows with the status condition left out of the WHERE clause.
ReviewRows_AnyStatus(source_id) ==
    {i \in RowIds : TermOf(translations[i]).source_id = source_id}

\* WHERE tm.source_id = ? AND t.status = 'review'
ReviewRows(source_id) ==
    {i \in RowIds : /\ translations[i].status = "review"
                    /\ TermOf(translations[i]).source_id = source_id}

\* The start_date clause: datetime() compares whole seconds.
FromStart(row, start_date) ==
    \/ (row.modified_at # NULL /\ Seconds(row.modified_at) >= Seconds(start_date))
    \/ (row.modified_at = NULL /\ Seconds(row.created_at) >= Seconds(start_date))

\* The end_date clause.
UntilEnd(row, end_date) ==
    \/ (row.modified_at # NULL /\ Seconds(row.modified_at) <= Seconds(end_date))
    \/ (row.modified_at = NULL /\ Seconds(row.created_at) <= Seconds(end_date))

\* ORDER BY datetime(COALESCE(t.modified_at, t.created_at)) ASC; rows of the
\* same second come in id order.
Before(i, j) ==
    LET si == Seconds(Coalesce(translations[i]))
        sj == Seconds(Coalesce(translations[j]))
    IN  si < sj \/ (si = sj /\ i < j)

RECURSIVE OrderRows(_)
OrderRows(S) ==
    IF S = {} THEN <<>>
    ELSE LET first == CHOOSE i \in S : \A j \in S \ {i} : Before(i, j)
         IN  <<first>> \o OrderRows(S \ {first})

\* One result dictionary of query_translations_for_ldes.
ResultRow(i) ==
    LET row == translations[i]
    IN  [translation_id |-> i,
         translation_value |-> row.value,
         language |-> row.language,
         modified_at |-> Coalesce(row),
         field_uri |-> term_fields[row.term_field_id].field_uri,
         term_uri |-> TermOf(row).uri]

query_translations_for_ldes(source_id, start_date, end_date) ==
    LET hits == {i \in ReviewRows(source_id) :
                    /\ (start_date # NULL => FromStart(translations[i], start_date))
                    /\ (end_date # NULL => UntilEnd(translations[i], end_date))}
        order == OrderRows(hits)
    IN  [k \in 1..Len(order) |-> ResultRow(order[k])]

----------------------------------------------------------------------------
(* Fragment assembly *)

\* The term's record exists in terms_data.
HasTerm(terms_data, term_uri) ==
    \E k \in 1..Len(terms_data) : terms_data[k].concept = term_uri

IndexOfTerm(terms_data, term_uri) ==
    CHOOSE k \in 1..Len(terms_data) : terms_data[k].concept = term_uri

HasField(fields, field_uri) ==
    \E k \in 1..Len(fields) : fields[k].field_uri = field_uri

\* AppendValue keeping one pair per field: the new pair takes the place of
\* the list.
AppendValue_LastWins(fields, trans) ==
    LET pair == [value |-> trans.translation_value, language |-> trans.language]
        opened == IF HasField(fields, trans.field_uri) THEN fields
                  ELSE Append(fields, [field_uri |-> trans.field_uri, values |-> <<>>])
    IN  [k \in 1..Len(opened) |->
            IF opened[k].field_uri = trans.field_uri
            THEN [opened[k] EXCEPT !.values = <<pair>>]
            ELSE opened[k]]

\* terms_data[term_uri]['fields'][field_uri].append({value, language}); the
\* dictionary keeps its keys in insertion order.
AppendValue(fields, trans) ==
    LET pair == [value |-> trans.translation_value, language |-> trans.language]
        opened == IF HasField(fields, trans.field_uri) THEN fields
                  ELSE Append(fields, [field_uri |-> trans.field_uri, values |-> <<>>])
    IN  [k \in 1..Len(opened) |->
            IF opened[k].field_uri = trans.field_uri
            THEN [opened[k] EXCEPT !.values = Append(@, pair)]
            ELSE opened[k]]

\* One turn of the loop of prepare_ldes_data.  'modified' is kept as the
\* whole-second string; a row is compared with its full time against the
\* time that string parses to.
PrepareRow(terms_data, trans) ==
    LET opened == IF HasTerm(terms_data, trans.term_uri) THEN terms_data
                  ELSE Append(terms_data, [concept |-> trans.term_uri,
                                           modified |-> Seconds(trans.modified_at),
                                           fields |-> <<>>])
        at == IndexOfTerm(opened, trans.term_uri)
        current_dt == FromSeconds(opened[at].modified)
        modified == IF trans.modified_at > current_dt
                    THEN Seconds(trans.modified_at)
                    ELSE opened[at].modified
    IN  [opened EXCEPT ![at] = [concept |-> opened[at].concept,
                                modified |-> modified,
                                fields |-> AppendValue(opened[at].fields, trans)]]

RECURSIVE PrepareRows(_, _)
PrepareRows(terms_data, rows) ==
    IF rows = <<>> THEN terms_data
    ELSE PrepareRows(PrepareRow(terms_data, Head(rows)), Tail(rows))

prepare_ldes_data(rows) == PrepareRows(<<>>, rows)

\* epoch_timestamp = int(max(modified_at of the rows).timestamp())
FragmentTimestamp(rows) ==
    Seconds(Max({rows[k].modified_at : k \in 1..Len(rows)}))

----------------------------------------------------------------------------
(* The feed directory *)

FragmentNames == {f.fragment_timestamp : f \in files}

FileNamed(name) == CHOOSE f \in files : f.fragment_timestamp = name

detect_existing_ldes ==
    IF ~dir_exists THEN [exists |-> FALSE, latest_file |-> FALSE]
    ELSE IF latest # <<>> THEN [exists |-> TRUE, latest_file |-> TRUE]
    ELSE IF files # {} THEN [exists |-> TRUE, latest_file |-> FALSE]
    ELSE [exists |-> FALSE, latest_file |-> FALSE]

\* The dcterms:modified values a rendered fragment carries: one per term
\* record, the record's 'modified' string.
EmbeddedModified(content) ==
    {content.ldes_data[k].modified : k \in 1..Len(content.ldes_data)}

\* max of the dcterms:modified values, None when there is none.
get_latest_modified_from_fragment(content) ==
    IF EmbeddedModified(content) = {} THEN NULL
    ELSE FromSeconds(Max(EmbeddedModified(content)))

\* A file name of the directory: its extension and its stem, which is
\* 'latest', the digits of an integer, or a text int() does not accept.
FileName(stem, epoch, ext) == [stem |-> stem, epoch |-> epoch, ext |-> ext]

LatestName == FileName("latest", NULL, "ttl")

\* The names in the feed directory: a fragment is <epoch>.ttl.
Listing ==
    {FileName("int", n, "ttl") : n \in FragmentNames}
        \cup (IF latest # <<>> THEN {LatestName} ELSE {})

\* A lookup that goes by the pointer: no predecessor without latest.ttl.
PreviousFragmentIn_ByPointer(exists, listing) ==
    LET epochs == {f.epoch : f \in {g \in listing : g.ext = "ttl" /\ g.stem = "int"}}
    IN  IF ~exists \/ LatestName \notin listing \/ epochs = {} THEN NULL
        ELSE Max(epochs)

\* get_previous_fragment over a directory with the given names: the *.ttl
\* files other than latest.ttl, those with an integer stem, the highest.
PreviousFragmentIn(exists, listing) ==
    LET ttl_files == {f \in listing : f.ext = "ttl" /\ f # LatestName}
        epoch_fragments == {f.epoch : f \in {g \in ttl_files : g.stem = "int"}}
    IN  IF ~exists THEN NULL
        ELSE IF ttl_files = {} THEN NULL
        ELSE IF epoch_fragments = {} THEN NULL
        ELSE Max(epoch_fragments)

\* The highest integer file name other than latest.ttl, None without one.
get_previous_fragment == PreviousFragmentIn(dir_exists, Listing)

----------------------------------------------------------------------------
(* The publish run: create_or_update_ldes *)

\* A cursor that is read from the newest fragment where the pointer is
\* missing.
Cursor_FromNewest ==
    IF ~dir_exists THEN NULL
    ELSE IF latest # <<>> THEN get_latest_modified_from_fragment(latest[1])
    ELSE IF files # {} THEN get_latest_modified_from_fragment(FileNamed(Max(FragmentNames)))
    ELSE NULL

\* Steps 1 to 4: the cursor read from latest.ttl, NULL when there is no
\* pointer or no date in it.
Cursor ==
    LET found == detect_existing_ldes
    IN  IF found.exists /\ found.latest_file
        THEN get_latest_modified_from_fragment(latest[1])
        ELSE NULL

\* A filter that keeps the rows on the boundary.
NewerThan_Inclusive(rows, cursor) == SelectSeq(rows, LAMBDA t : t.modified_at >= cursor)

\* The in-memory filter: rows strictly newer than the cursor.
NewerThan(rows, cursor) == SelectSeq(rows, LAMBDA t : t.modified_at > cursor)

\* The rows the run goes on with; <<>> makes it return 'skipped'.
SelectTranslations ==
    IF Cursor # NULL
    THEN NewerThan(query_translations_for_ldes(SourceId, Cursor, now), Cursor)
    ELSE query_translations_for_ldes(SourceId, NULL, NULL)

\* The tables the translation query joins.
QueryTables == {"translations", "term_fields", "terms"}

\* main() found the database file and the query can be run on it.
StoreReadable == db_exists /\ QueryTables \subseteq tables

\* The try block of extract_types_from_source: the type URIs of the items
\* of config['types'] that are dictionaries with a 'type'; raised when a
\* statement of the block raises.
TypesOfConfig ==
    LET none == [raised |-> FALSE, types |-> <<>>]
        fails == [raised |-> TRUE, types |-> <<>>]
        config == sources.translation_config
    IN  IF "sources" \notin tables THEN fails
        ELSE IF ~sources.present THEN none
        ELSE IF config.kind = "null" THEN none
        ELSE IF config.kind \in {"invalid", "number"} THEN fails
        ELSE IF ~config.has_types THEN none
        ELSE LET typed == SelectSeq(config.types, LAMBDA item : item.is_dict /\ item.has_type)
             IN  [raised |-> FALSE, types |-> [k \in 1..Len(typed) |-> typed[k].type]]

\* extract_types_from_source without its except clauses.
extract_types_from_source_Unguarded == TypesOfConfig

\* extract_types_from_source with its except clauses: the empty list on
\* every error.
extract_types_from_source ==
    IF TypesOfConfig.raised THEN [raised |-> FALSE, types |-> <<>>] ELSE TypesOfConfig

default_timestamp == "http://purl.org/dc/terms/modified"
default_versionof == "http://purl.org/dc/terms/isVersionOf"

\* The try block of extract_ldes_paths_from_source, the handlers of the
\* GET and of the parse included; raised when the query on sources raises.
PathsOfFeed ==
    LET defaults == [raised |-> FALSE, timestamp_path |-> default_timestamp,
                     versionof_path |-> default_versionof]
    IN  IF "sources" \notin tables THEN [defaults EXCEPT !.raised = TRUE]
        ELSE IF ~sources.present THEN defaults
        ELSE IF sources.source_type # "LDES" THEN defaults
        ELSE IF ~sources.has_path THEN defaults
        ELSE IF feed.kind \in {"unreachable", "http_error"} THEN defaults
        ELSE IF feed.kind = "unparsable" THEN defaults
        ELSE [raised |-> FALSE,
              timestamp_path |-> IF feed.timestampPath = "" THEN default_timestamp
                                 ELSE feed.timestampPath,
              versionof_path |-> IF feed.versionOfPath = "" THEN default_versionof
                                 ELSE feed.versionOfPath]

\* extract_ldes_paths_from_source with its outer except clause.
extract_ldes_paths_from_source ==
    IF PathsOfFeed.raised
    THEN [raised |-> FALSE, timestamp_path |-> default_timestamp,
          versionof_path |-> default_versionof]
    ELSE PathsOfFeed

\* What the run hands to the template for the new fragment.
NewFragment(rows) ==
    [fragment_timestamp |-> FragmentTimestamp(rows),
     prev_fragment_timestamp |-> get_previous_fragment,
     ldes_data |-> prepare_ldes_data(rows),
     types |-> extract_types_from_source.types,
     ldes_timestampPath_property |-> extract_ldes_paths_from_source.timestamp_path,
     ldes_versionOfPath_property |-> extract_ldes_paths_from_source.versionof_path]

\* sys.exit(0 if result['status'] in ['success', 'skipped'] else 1)
ExitCodeOf(status) == IF status \in {"success", "skipped"} THEN 0 ELSE 1

\* The row versions (id, time) a selection holds.
Versions(rows) ==
    {<<rows[k].translation_id, rows[k].modified_at>> : k \in 1..Len(rows)}

\* The sink is made with force_output = False (SinkFactory.make_sink(path,
\* False)): over a file that is already there the collaborator either
\* writes the new content or refuses and raises.  A fresh name is written.
SinkOutcomes(name) ==
    IF name \in FragmentNames THEN {"written", "refused"} ELSE {"written"}

\* The directory after the sink has written the fragment under its name.
WriteFragment(content) ==
    {f \in files : f.fragment_timestamp # content.fragment_timestamp} \cup {content}

\* No eligible row: status 'skipped', nothing touched.
PublishSkipped ==
    /\ pc = "idle"
    /\ StoreReadable
    /\ SelectTranslations = <<>>
    /\ result' = "skipped"
    /\ ldes_exit_code' = ExitCodeOf("skipped")
    /\ UNCHANGED <<harvest_vars, other_vars, now, store_vars, feed_vars, pc,
                   fragment_file, published>>

\* main() does not find the database file, or the translation query raises
\* on a missing table: the run ends with exit code 1, nothing touched.
PublishFailed ==
    /\ pc = "idle"
    /\ ~StoreReadable
    /\ result' = "error"
    /\ ldes_exit_code' = 1
    /\ UNCHANGED <<harvest_vars, other_vars, now, store_vars, feed_vars, pc,
                   fragment_file, published>>

\* Steps 5 and 6: assemble and write the fragment.  An exception, from the
\* metadata steps 5c and 5d or from the sink, ends the run with exit code 1.
PublishFragment ==
    /\ pc = "idle"
    /\ StoreReadable
    /\ SelectTranslations # <<>>
    /\ LET rows == SelectTranslations
           content == NewFragment(rows)
       IN  IF extract_types_from_source.raised \/ extract_ldes_paths_from_source.raised
           THEN /\ result' = "error"
                /\ ldes_exit_code' = 1
                /\ UNCHANGED <<dir_exists, files, pc, fragment_file, published>>
           ELSE \E outcome \in SinkOutcomes(content.fragment_timestamp) :
                  /\ dir_exists' = TRUE
                  /\ IF outcome = "written"
                     THEN /\ files' = WriteFragment(content)
                          /\ pc' = "written"
                          /\ fragment_file' = content.fragment_timestamp
                          /\ published' = published \cup Versions(rows)
                          /\ UNCHANGED <<result, ldes_exit_code>>
                     ELSE /\ result' = "error"
                          /\ ldes_exit_code' = 1
                          /\ UNCHANGED <<files, pc, fragment_file, published>>
    /\ UNCHANGED <<harvest_vars, other_vars, now, store_vars, latest>>

\* Step 7: update_latest_symlink copies the fragment over latest.ttl.
UpdateLatest ==
    /\ pc = "written"
    /\ latest' = <<FileNamed(fragment_file)>>
    /\ pc' = "idle"
    /\ fragment_file' = NULL
    /\ result' = "success"
    /\ ldes_exit_code' = ExitCodeOf("success")
    /\ UNCHANGED <<harvest_vars, other_vars, now, store_vars, dir_exists, files, published>>

\* The process stops between step 6 and step 7.
Crash ==
    /\ pc = "written"
    /\ pc' = "idle"
    /\ fragment_file' = NULL
    /\ result' = "crashed"
    /\ ldes_exit_code' = NULL
    /\ UNCHANGED <<harvest_vars, other_vars, now, store_vars, feed_vars, published>>

----------------------------------------------------------------------------
(* The review workflow and the clock, outside both pipelines *)

Tick ==
    /\ now < MaxTime
    /\ now' = now + 1
    /\ UNCHANGED <<harvest_vars, other_vars, store_vars, feed_vars, publish_vars>>

\* The uniqueness of table translations that INSERT OR IGNORE relies on: one
\* row per (term_field_id, language, status).
Duplicate(rows, row) ==
    \E i \in 1..Len(rows) : /\ rows[i].term_field_id = row.term_field_id
                            /\ rows[i].language = row.language
                            /\ rows[i].status = row.status

\* A curator submits a translation: a row with status review appears.
AddReview ==
    /\ has_new_schema
    /\ Cardinality({i \in RowIds : translations[i].status # "original"}) < MaxRows
    /\ \E tf \in 1..Len(term_fields), lang \in Languages :
         LET row == [term_field_id |-> tf, language |-> lang, value |-> "mar",
                     status |-> "review", source |-> "user",
                     created_at |-> now, modified_at |-> NULL]
         IN  /\ ~Duplicate(translations, row)
             /\ translations' = Append(translations, row)
    /\ result' = "none"
    /\ ldes_exit_code' = NULL
    /\ UNCHANGED <<harvest_vars, other_vars, now, terms, term_fields, sources, feed_vars,
                   pc, fragment_file, published>>

\* A curator edits a translation in review: its modified_at is set to the
\* time of the edit.  Each row is edited at most once here.
ModifyReview ==
    /\ \E i \in RowIds :
         /\ translations[i].status = "review"
         /\ translations[i].modified_at = NULL
         /\ translations[i].created_at < now
         /\ translations' = [translations EXCEPT ![i].modified_at = now]
    /\ result' = "none"
    /\ ldes_exit_code' = NULL
    /\ UNCHANGED <<harvest_vars, other_vars, now, terms, term_fields, sources, feed_vars,
                   pc, fragment_file, published>>

\* The workflow moves an approved translation on: it is no longer in review.
LeaveReview ==
    /\ \E i \in RowIds :
         /\ translations[i].status = "review"
         /\ translations' = [translations EXCEPT ![i].status = "approved"]
    /\ result' = "none"
    /\ ldes_exit_code' = NULL
    /\ UNCHANGED <<harvest_vars, other_vars, now, terms, term_fields, sources, feed_vars,
                   pc, fragment_file, published>>

----------------------------------------------------------------------------
(* Publication: sequential publish runs over a store under review *)

\* A source that is a static file, its configuration naming one type.
StaticSource ==
    [present |-> TRUE, source_type |-> "Static_file", has_path |-> TRUE,
     translation_config |->
        [kind |-> "object", has_types |-> TRUE,
         types |-> <<[is_dict |-> TRUE, has_type |-> TRUE, type |-> "skos:Concept"]>>,
         timestampPath |-> "", versionOfPath |-> ""]]

\* A feed description that declares both properties.
DeclaringFeed ==
    [kind |-> "turtle", timestampPath |-> "http://ex/generatedAt",
     versionOfPath |-> "http://ex/versionOf"]

RequiredTables == {"terms", "term_fields", "translations", "sources"}

\* A collection identifier that passes validation.
GoodUri == <<"h", "t", "t", "p", ":", "/", "/", "n", "/", "P">>

Runs == {1, 2}

NoReturn == [done |-> FALSE, value |-> <<>>]

IdleRun == [pc |-> "idle", rows |-> <<>>, prev |-> NULL]

\* No harvest process has run, no function is applied on its own and no
\* second publish process exists.
Quiet ==
    /\ attempt = 0
    /\ io = <<>>
    /\ exit_code = NULL
    /\ ldes_exit_code = NULL
    /\ runs = [r \in Runs |-> IdleRun]
    /\ arg = <<>>
    /\ ret = NoReturn
    /\ interrupted_at = NULL

\* A valid identifier, a database with its schema, an endpoint that answers.
SoundInputs ==
    /\ collection_uri = GoodUri
    /\ db_exists = TRUE
    /\ tables = RequiredTables
    /\ endpoint = {"ok"}
    /\ feed = DeclaringFeed

PublishTerms ==
    <<[uri |-> "http://ex/1", source_id |-> SourceId, updated_at |-> 0],
      [uri |-> "http://ex/2", source_id |-> SourceId, updated_at |-> 0],
      [uri |-> "http://ex/3", source_id |-> OtherSourceId, updated_at |-> 0]>>

PublishTermFields ==
    <<[term_id |-> 1, field_uri |-> "definition", original_value |-> "sea"],
      [term_id |-> 2, field_uri |-> "definition", original_value |-> "lake"],
      [term_id |-> 3, field_uri |-> "definition", original_value |-> "pond"]>>

InitPublish ==
    /\ now = 0
    /\ terms = PublishTerms
    /\ term_fields = PublishTermFields
    /\ translations = <<>>
    /\ dir_exists = FALSE
    /\ files = {}
    /\ latest = <<>>
    /\ pc = "idle"
    /\ fragment_file = NULL
    /\ result = "none"
    /\ published = {}
    /\ upstream = <<>>
    /\ has_new_schema = TRUE
    /\ hpc = "idle"
    /\ member_count = 0
    /\ offset = 0
    /\ stats = NoStats
    /\ harvested = 0
    /\ edits = 0
    /\ sources = StaticSource
    /\ Quiet
    /\ SoundInputs

NextPublish ==
    \/ PublishSkipped
    \/ PublishFragment
    \/ UpdateLatest
    \/ Crash
    \/ Tick
    \/ AddReview
    \/ ModifyReview
    \/ LeaveReview

SpecPublish == InitPublish /\ [][NextPublish]_vars

\* The same with every publish run running to its end.
NextSequential ==
    \/ PublishSkipped
    \/ PublishFragment
    \/ UpdateLatest
    \/ Tick
    \/ AddReview
    \/ ModifyReview
    \/ LeaveReview

SpecSequential == InitPublish /\ [][NextSequential]_vars

----------------------------------------------------------------------------
(* Claims about publication *)

\* The fragment a fragment of the feed should name as its predecessor: the
\* one with the greatest timestamp below its own, NULL without one.
ChainPredecessor(f) ==
    LET older == {n \in FragmentNames : n < f.fragment_timestamp}
    IN  IF older = {} THEN NULL ELSE Max(older)

ChainValid == \A f \in files : f.prev_fragment_timestamp = ChainPredecessor(f)

\* A step in which a publish run writes its fragment.
WritesFragment == pc = "idle" /\ pc' = "written"

\* A step in which a publish run starts (and, when it skips or fails, ends).
PublishStarts == PublishSkipped \/ PublishFragment

\* The store holds no row with status review for the source.
NoRowInReview ==
    \A i \in RowIds : translations[i].status = "review"
                          => TermOf(translations[i]).source_id # SourceId

C2_PublishedOnce ==
    [][WritesFragment => Versions(SelectTranslations) \cap published = {}]_vars

\* C6: a publish run started while the source has no row in review ends
\* 'skipped' and leaves directory, fragments and pointer as they were.
C6_PublishNoOp ==
    [][(NoRowInReview /\ PublishStarts)
          => (result' = "skipped" /\ UNCHANGED feed_vars)]_vars

\* C6 witness: a skipped run over a feed that has its pointer, with no row
\* of the source in review.
C6_Witness ==
    /\ result = "skipped"
    /\ NoRowInReview
    /\ translations # <<>>
    /\ latest # <<>>

\* C7: a publish run started right after a successful one, the store not
\* having changed, ends 'skipped' and leaves the feed as it was.
C7_PublishIdempotent ==
    [][(result = "success" /\ PublishStarts)
          => (result' = "skipped" /\ UNCHANGED feed_vars)]_vars

NewestFragment == FileNamed(Max(FragmentNames))

\* The fragment files a step creates or changes.
FilesWritten == {f \in files' : f \notin files}

\* C11: when a publish run ends with status 'success' the pointer file holds
\* the content of the fragment with the highest timestamp; the run writes
\* at most one fragment file, and none after the one it has written.
C11_LatestIsNewest ==
    [][/\ (pc = "written" /\ pc' = "idle" /\ result' = "success")
             => latest' = <<NewestFragment'>>
       /\ Cardinality(FilesWritten) <= 1
       /\ pc = "written" => FilesWritten = {}]_vars

----------------------------------------------------------------------------
(* Fragment assembly applied on its own *)

MaxLen == 3

\* The rows a selection can hold: dictionaries of the translation query,
\* over two terms, two fields and three languages.
SelectedRows ==
    [translation_id : {1}, translation_value : {"mar"},
     language : {"en", "fr", "es"}, modified_at : {0, 1},
     field_uri : {"definition", "prefLabel"},
     term_uri : {"http://ex/1", "http://ex/2"}]

Selections == UNION {[1..n -> SelectedRows] : n \in 0..MaxLen}

\* prepare_ldes_data(translations) is called and returns.
CallPrepare ==
    /\ ~ret.done
    /\ ret' = [done |-> TRUE, value |-> prepare_ldes_data(arg)]
    /\ UNCHANGED <<now, store_vars, feed_vars, publish_vars, harvest_vars, input_vars,
                   runs, arg, interrupted_at>>

InitPrepare ==
    /\ now = 0
    /\ terms = PublishTerms
    /\ term_fields = PublishTermFields
    /\ translations = <<>>
    /\ dir_exists = FALSE
    /\ files = {}
    /\ latest = <<>>
    /\ pc = "idle"
    /\ fragment_file = NULL
    /\ result = "none"
    /\ published = {}
    /\ upstream = <<>>
    /\ has_new_schema = TRUE
    /\ hpc = "idle"
    /\ member_count = 0
    /\ offset = 0
    /\ stats = NoStats
    /\ harvested = 0
    /\ edits = 0
    /\ sources = StaticSource
    /\ attempt = 0
    /\ io = <<>>
    /\ exit_code = NULL
    /\ ldes_exit_code = NULL
    /\ runs = [r \in Runs |-> IdleRun]
    /\ SoundInputs
    /\ arg \in Selections
    /\ ret = NoReturn
    /\ interrupted_at = NULL

NextPrepare == CallPrepare

SpecPrepare == InitPrepare /\ [][NextPrepare]_vars

\* The {value, language} pairs of the rows of a term and field, in the
\* order of the rows.
PairsOf(rows, term_uri, field_uri) ==
    LET of == SelectSeq(rows, LAMBDA t : t.term_uri = term_uri /\ t.field_uri = field_uri)
    IN  [k \in 1..Len(of) |-> [value |-> of[k].translation_value,
                               language |-> of[k].language]]

\* C12: prepare_ldes_data returns one record per distinct term URI of the
\* rows, each with one entry per field of that term, and the entry's list
\* holds one {value, language} pair per row of that term and field, in the
\* order of the rows: rows that differ by language only are all kept.
C12_LanguagesPreserved ==
    ret.done =>
        LET out == ret.value
        IN  /\ \A i, j \in 1..Len(out) : out[i].concept = out[j].concept => i = j
            /\ {out[k].concept : k \in 1..Len(out)} = {arg[k].term_uri : k \in 1..Len(arg)}
            /\ \A k \in 1..Len(out) :
                  LET fields == out[k].fields
                  IN  /\ \A i, j \in 1..Len(fields) :
                            fields[i].field_uri = fields[j].field_uri => i = j
                      /\ {fields[i].field_uri : i \in 1..Len(fields)}
                            = {arg[i].field_uri : i \in {n \in 1..Len(arg) :
                                                            arg[n].term_uri = out[k].concept}}
                      /\ \A i \in 1..Len(fields) :
                            fields[i].values
                              = PairsOf(arg, out[k].concept, fields[i].field_uri)

\* C12 witness: a record whose field holds three pairs of one value in
\* three languages.
C12_Witness ==
    /\ ret.done
    /\ \E k \in 1..Len(ret.value) : \E i \in 1..Len(ret.value[k].fields) :
          LET values == ret.value[k].fields[i].values
          IN  /\ Len(values) = 3
              /\ Cardinality({values[n].language : n \in 1..3}) = 3
              /\ Cardinality({values[n].value : n \in 1..3}) = 1

----------------------------------------------------------------------------
(* Harvest: insert_results *)

\* FIELD_MAPPINGS: the property URIs that are fields.
FIELD_MAPPINGS ==
    {"prefLabel", "altLabel", "definition", "notation", "broader", "narrower", "related"}

\* not value or not value.strip()
IsBlank(value) == value \in {"", " "}

\* SQLite's CURRENT_TIMESTAMP: the clock's whole second.
CURRENT_TIMESTAMP == FromSeconds(Seconds(now))

\* SELECT id FROM terms WHERE uri = ?: the id, NULL without a row.
FindTerm(st, concept_uri) ==
    IF \E k \in 1..Len(st.terms) : st.terms[k].uri = concept_uri
    THEN CHOOSE k \in 1..Len(st.terms) :
            /\ st.terms[k].uri = concept_uri
            /\ \A j \in 1..(k - 1) : st.terms[j].uri # concept_uri
    ELSE NULL

\* The top of the loop over concepts: refresh updated_at of a known term,
\* insert an unknown one.
EnsureTerm(st, concept_uri) ==
    IF FindTerm(st, concept_uri) # NULL
    THEN [st EXCEPT
            !.terms = [k \in 1..Len(@) |->
                          IF @[k].uri = concept_uri
                          THEN [@[k] EXCEPT !.updated_at = CURRENT_TIMESTAMP]
                          ELSE @[k]],
            !.stats.terms_updated = @ + 1]
    ELSE [st EXCEPT
            !.terms = Append(@, [uri |-> concept_uri, source_id |-> NULL,
                                 updated_at |-> CURRENT_TIMESTAMP]),
            !.stats.terms_inserted = @ + 1]

\* SELECT id FROM term_fields WHERE term_id = ? AND field_uri = ?
FindTermField(st, term_id, field_uri) ==
    IF \E k \in 1..Len(st.term_fields) :
          st.term_fields[k].term_id = term_id /\ st.term_fields[k].field_uri = field_uri
    THEN CHOOSE k \in 1..Len(st.term_fields) :
            /\ st.term_fields[k].term_id = term_id
            /\ st.term_fields[k].field_uri = field_uri
            /\ \A j \in 1..(k - 1) :
                  ~(st.term_fields[j].term_id = term_id
                    /\ st.term_fields[j].field_uri = field_uri)
    ELSE NULL

\* The row a new original translation would be.
OriginalRow(term_field_id, language, value) ==
    [term_field_id |-> term_field_id, language |-> language, value |-> value,
     status |-> "original", source |-> "rdf-ingest",
     created_at |-> CURRENT_TIMESTAMP, modified_at |-> NULL]

\* InsertOriginal as INSERT OR REPLACE keyed on (term_field_id, language):
\* the new row takes the place of the rows of that field and language.
InsertOriginal_Replace(st, row) ==
    IF \E i \in 1..Len(st.translations) :
          /\ st.translations[i].term_field_id = row.term_field_id
          /\ st.translations[i].language = row.language
    THEN [st EXCEPT !.translations =
            [i \in 1..Len(@) |->
                IF @[i].term_field_id = row.term_field_id /\ @[i].language = row.language
                THEN row ELSE @[i]]]
    ELSE [st EXCEPT !.translations = Append(@, row),
                    !.stats.originals_inserted = @ + 1]

\* InsertOriginal where a row is a duplicate only if its value is the
\* same too.
InsertOriginal_ValueKeyed(st, row) ==
    IF \E i \in 1..Len(st.translations) :
          /\ st.translations[i].term_field_id = row.term_field_id
          /\ st.translations[i].language = row.language
          /\ st.translations[i].status = row.status
          /\ st.translations[i].value = row.value
    THEN st
    ELSE [st EXCEPT !.translations = Append(@, row),
                    !.stats.originals_inserted = @ + 1]

\* INSERT OR IGNORE INTO translations ... 'original', 'rdf-ingest'
InsertOriginal(st, row) ==
    IF Duplicate(st.translations, row) THEN st
    ELSE [st EXCEPT !.translations = Append(@, row),
                    !.stats.originals_inserted = @ + 1]

\* EnsureTermField without the lookup: a row is inserted every time.
EnsureTermField_NoLookup(st, term_id, field_uri, value) ==
    [st EXCEPT !.term_fields = Append(@, [term_id |-> term_id,
                                          field_uri |-> field_uri,
                                          original_value |-> value]),
               !.stats.term_fields_inserted = @ + 1]

\* EnsureTermField as an upsert: an existing row takes the new value.
EnsureTermField_Overwrite(st, term_id, field_uri, value) ==
    IF FindTermField(st, term_id, field_uri) = NULL
    THEN [st EXCEPT !.term_fields = Append(@, [term_id |-> term_id,
                                               field_uri |-> field_uri,
                                               original_value |-> value]),
                    !.stats.term_fields_inserted = @ + 1]
    ELSE [st EXCEPT !.term_fields[FindTermField(st, term_id, field_uri)].original_value = value]

\* INSERT INTO term_fields (term_id, field_uri, original_value) when the
\* lookup found no row; an existing row is left as it is.
EnsureTermField(st, term_id, field_uri, value) ==
    IF FindTermField(st, term_id, field_uri) = NULL
    THEN [st EXCEPT !.term_fields = Append(@, [term_id |-> term_id,
                                               field_uri |-> field_uri,
                                               original_value |-> value]),
                    !.stats.term_fields_inserted = @ + 1]
    ELSE st

\* ProcessProperty without the test for blank values.
ProcessProperty_KeepsBlank(st, term_id, prop_data) ==
    IF prop_data.property \notin FIELD_MAPPINGS THEN st
    ELSE LET with_field == EnsureTermField(st, term_id, prop_data.property, prop_data.value)
             term_field_id == FindTermField(with_field, term_id, prop_data.property)
         IN  IF st.has_new_schema
             THEN InsertOriginal(with_field,
                                 OriginalRow(term_field_id, prop_data.language, prop_data.value))
             ELSE with_field

\* One turn of the loop over a concept's property values.
ProcessProperty(st, term_id, prop_data) ==
    IF IsBlank(prop_data.value) THEN st
    ELSE IF prop_data.property \notin FIELD_MAPPINGS THEN st
    ELSE LET with_field == EnsureTermField(st, term_id, prop_data.property, prop_data.value)
             term_field_id == FindTermField(with_field, term_id, prop_data.property)
         IN  IF st.has_new_schema
             THEN InsertOriginal(with_field,
                                 OriginalRow(term_field_id, prop_data.language, prop_data.value))
             ELSE with_field

RECURSIVE ProcessProperties(_, _, _)
ProcessProperties(st, term_id, properties) ==
    IF properties = <<>> THEN st
    ELSE ProcessProperties(ProcessProperty(st, term_id, Head(properties)),
                           term_id, Tail(properties))

\* concept_data: the concepts of the bindings in order of first appearance,
\* each with its property values in binding order.
RECURSIVE ConceptsOf(_)
ConceptsOf(bindings) ==
    IF bindings = <<>> THEN <<>>
    ELSE LET rest == ConceptsOf(SubSeq(bindings, 1, Len(bindings) - 1))
             last == bindings[Len(bindings)].concept
         IN  IF \E k \in 1..Len(rest) : rest[k] = last THEN rest ELSE Append(rest, last)

PropertiesOf(bindings, concept_uri) ==
    SelectSeq(bindings, LAMBDA b : b.concept = concept_uri)

RECURSIVE ProcessConcepts(_, _, _)
ProcessConcepts(st, concepts, bindings) ==
    IF concepts = <<>> THEN st
    ELSE LET with_term == EnsureTerm(st, Head(concepts))
             term_id == FindTerm(with_term, Head(concepts))
         IN  ProcessConcepts(
                 ProcessProperties(with_term, term_id, PropertiesOf(bindings, Head(concepts))),
                 Tail(concepts), bindings)

\* insert_results(conn, collection_uri, results) on the store st.
insert_results(st, bindings) == ProcessConcepts(st, ConceptsOf(bindings), bindings)

----------------------------------------------------------------------------
(* Harvest: the run of main() *)

\* batch_size = 1000 in main(), scaled down.
batch_size == 2

Values == {"sea", "ocean", " "}

Binding(concept, property, value, language) ==
    [concept |-> concept, property |-> property, value |-> value, language |-> language]

\* The collections the endpoint starts with, each in the data query's
\* ORDER BY ?concept ?property order.
Collections ==
    { <<Binding("c1", "definition", "sea", "en"),
        Binding("c1", "definition", "ocean", "es"),
        Binding("c2", "prefLabel", " ", "en"),
        Binding("c3", "prefLabel", "sea", "undefined")>>,
      <<Binding("c1", "definition", " ", "en"),
        Binding("c1", "definition", "sea", "en"),
        Binding("c2", "definition", "sea", "en")>> }

\* get_member_count: COUNT(DISTINCT ?concept) over the collection's members.
get_member_count == Len(ConceptsOf(upstream))

\* The bindings of the data query with LIMIT limit OFFSET at.
query_sparql_endpoint(limit, at) ==
    SubSeq(upstream, at + 1, IF at + limit < Len(upstream) THEN at + limit ELSE Len(upstream))

\* The characters validate_collection_uri prohibits; the quotes, the
\* backslash and the backtick are written by name.
Prohibited ==
    {"<", ">", "quote", "apostrophe", "{", "}", "|", "backslash", "^", "backtick", "[", "]"}

StartsWith(uri, prefix) ==
    Len(uri) >= Len(prefix) /\ SubSeq(uri, 1, Len(prefix)) = prefix

\* 'sub in uri' of Python, over sequences of characters.
Contains(uri, sub) ==
    \E k \in 1..(Len(uri) - Len(sub) + 1) : SubSeq(uri, k, k + Len(sub) - 1) = sub

\* The authority validate_collection_uri expects: vocab.nerc.ac.uk.
Authority ==
    <<"v", "o", "c", "a", "b", ".", "n", "e", "r", "c", ".", "a", "c", ".", "u", "k">>

\* A validation that raises where the code only warns.
validate_collection_uri_HostRequired(uri) ==
    /\ \/ StartsWith(uri, <<"h", "t", "t", "p", ":", "/", "/">>)
       \/ StartsWith(uri, <<"h", "t", "t", "p", "s", ":", "/", "/">>)
    /\ \A k \in 1..Len(uri) : uri[k] \notin Prohibited
    /\ Contains(uri, Authority)

\* A validation that tests the scheme and nothing else.
validate_collection_uri_SchemeOnly(uri) ==
    \/ StartsWith(uri, <<"h", "t", "t", "p", ":", "/", "/">>)
    \/ StartsWith(uri, <<"h", "t", "t", "p", "s", ":", "/", "/">>)

\* validate_collection_uri: TRUE where it returns True, FALSE where it
\* raises ValueError.
validate_collection_uri(uri) ==
    /\ \/ StartsWith(uri, <<"h", "t", "t", "p", ":", "/", "/">>)
       \/ StartsWith(uri, <<"h", "t", "t", "p", "s", ":", "/", "/">>)
    /\ \A k \in 1..Len(uri) : uri[k] \notin Prohibited

\* The warning validate_collection_uri prints before it returns True: the
\* identifier does not contain the expected authority.
WarnsHost(uri) == validate_collection_uri(uri) /\ ~Contains(uri, Authority)

\* One entry of the history io: a query comes with its LIMIT, its OFFSET,
\* the number of the attempt and the response it got, a sleep with its
\* delay in seconds.
IoEvent(op, limit, at, n, response, delay) ==
    [op |-> op, limit |-> limit, offset |-> at, attempt |-> n,
     response |-> response, delay |-> delay]

FileTest == IoEvent("exists", NULL, NULL, NULL, "", NULL)
Connect == IoEvent("connect", NULL, NULL, NULL, "", NULL)
CountQuery(response) == IoEvent("count", NULL, NULL, NULL, response, NULL)
Commit == IoEvent("commit", NULL, NULL, NULL, "", NULL)
DataQuery(limit, at, n, response) == IoEvent("data", limit, at, n, response, NULL)
Sleep(delay) == IoEvent("sleep", NULL, NULL, NULL, "", delay)

\* The event of a query that was never sent: building its text raised.
NotSent == IoEvent("raised", NULL, NULL, NULL, "", NULL)

\* The query string of create_sparql_query and of get_member_count is built
\* from escape_sparql_uri(collection_uri), which validates: the query is
\* sent where that returns, and is not where it raises.
create_sparql_query(uri, event) ==
    IF validate_collection_uri(uri) THEN event ELSE NotSent

\* max_retries and base_delay of query_sparql_endpoint.
max_retries == 3
base_delay == 1

\* The responses of the endpoint: a result, HTTP 502, another HTTP error,
\* an error that is not an HTTP error.
Responses == {"ok", "502", "503", "timeout"}

\* A retry on every error, while attempts are left.
Retryable_AnyError(response, n) == response # "ok" /\ n < max_retries - 1

\* e.code == 502 and attempt < max_retries - 1
Retryable(response, n) == response = "502" /\ n < max_retries - 1

\* delay = base_delay * (2**attempt)
Backoff(n) == base_delay * (2 ^ n)

\* insert_results gets as far as a statement on term_fields: some binding
\* has a value that is not blank for a property that is a field.
ReachesTermFields(bindings) ==
    \E k \in 1..Len(bindings) :
        ~IsBlank(bindings[k].value) /\ bindings[k].property \in FIELD_MAPPINGS

\* range(0, c, batch_size)
BatchOffsets(c) == {at \in 0..(c - 1) : at % batch_size = 0}

\* A loop that takes one more turn when the count is a multiple of the
\* batch size.
MoreBatches_Inclusive(at) == at + batch_size <= member_count

\* range(0, member_count, batch_size) has an offset after at.
MoreBatches(at) == at + batch_size < member_count

\* An exit that sets the code and leaves the loop running.
HarvestExit_KeepsGoing(code) == hpc' = hpc /\ exit_code' = code

\* An end of main() that reports success whatever happened.
HarvestExit_Zero(code) == hpc' = "idle" /\ exit_code' = 0

\* The run ends with this exit code.
HarvestExit(code) ==
    /\ hpc' = "idle"
    /\ exit_code' = code

\* main() up to the batch loop: validation, the database file, the
\* connection and the test for table terms, then the count query, which
\* fixes the offsets.  Any exception ends the run with exit code 1.
HarvestStart ==
    /\ hpc = "idle"
    /\ offset' = 0
    /\ stats' = NoStats
    /\ attempt' = 0
    /\ IF ~validate_collection_uri(collection_uri)
       THEN /\ io' = <<>>
            /\ HarvestExit(1)
            /\ UNCHANGED <<member_count, harvested>>
       ELSE IF ~db_exists
       THEN /\ io' = <<FileTest>>
            /\ HarvestExit(1)
            /\ UNCHANGED <<member_count, harvested>>
       ELSE IF "terms" \notin tables
       THEN /\ io' = <<FileTest, Connect>>
            /\ HarvestExit(1)
            /\ UNCHANGED <<member_count, harvested>>
       ELSE \E response \in endpoint :
              /\ io' = <<FileTest, Connect, create_sparql_query(collection_uri,
                                                                    CountQuery(response))>>
              /\ IF response = "ok"
                 THEN /\ member_count' = get_member_count
                      /\ harvested' = IF harvested < 2 THEN harvested + 1 ELSE 2
                      /\ IF get_member_count > 0
                         THEN hpc' = "running" /\ exit_code' = NULL
                         ELSE HarvestExit(0)
                 ELSE /\ HarvestExit(1)
                      /\ UNCHANGED <<member_count, harvested>>
    /\ UNCHANGED <<now, store_vars, feed_vars, publish_vars, other_vars, upstream,
                   has_new_schema, edits>>

\* The fetch got its result: insert_results merges and commits the batch,
\* and the loop goes to the next offset or ends.  Without table term_fields
\* the first statement on it raises and the run ends, nothing committed.
MergeBatch(sent) ==
    LET bindings == query_sparql_endpoint(batch_size, offset)
        st == insert_results(
                  [terms |-> terms, term_fields |-> term_fields,
                   translations |-> translations, stats |-> stats,
                   has_new_schema |-> has_new_schema],
                  bindings)
    IN  IF "term_fields" \notin tables /\ ReachesTermFields(bindings)
        THEN /\ io' = sent
             /\ HarvestExit(1)
             /\ UNCHANGED <<store_vars, stats, offset, attempt>>
        ELSE /\ terms' = st.terms
             /\ term_fields' = st.term_fields
             /\ translations' = st.translations
             /\ stats' = st.stats
             /\ io' = Append(sent, Commit)
             /\ offset' = offset + batch_size
             /\ attempt' = 0
             /\ IF MoreBatches(offset)
                THEN hpc' = "running" /\ exit_code' = NULL
                ELSE HarvestExit(0)
             /\ UNCHANGED sources

\* One attempt of the fetch of the batch at offset, in one turn of the
\* batch loop: a result is merged, a 502 is retried after the backoff while
\* attempts are left, any other error ends the run with exit code 1.
HarvestBatch ==
    /\ hpc = "running"
    /\ \E response \in endpoint :
         LET sent == Append(io, create_sparql_query(collection_uri,
                                                    DataQuery(batch_size, offset, attempt,
                                                              response)))
         IN  IF response = "ok" THEN MergeBatch(sent)
             ELSE IF Retryable(response, attempt)
             THEN /\ io' = Append(sent, Sleep(Backoff(attempt)))
                  /\ attempt' = attempt + 1
                  /\ UNCHANGED <<store_vars, stats, offset, hpc, exit_code>>
             ELSE /\ io' = sent
                  /\ HarvestExit(1)
                  /\ UNCHANGED <<store_vars, stats, offset, attempt>>
    /\ UNCHANGED <<now, feed_vars, publish_vars, other_vars, upstream, has_new_schema,
                   member_count, harvested, edits>>

\* The vocabulary's maintainers change the value of one row.
UpstreamEdit ==
    /\ hpc = "idle"
    /\ edits < MaxEdits
    /\ edits' = edits + 1
    /\ \E k \in 1..Len(upstream), v \in Values :
         /\ v # upstream[k].value
         /\ upstream' = [upstream EXCEPT ![k].value = v]
    /\ harvested' = 0
    /\ UNCHANGED <<now, store_vars, feed_vars, publish_vars, other_vars, has_new_schema,
                   hpc, member_count, offset, stats, attempt, io, exit_code>>

InitHarvest ==
    /\ now = 0
    /\ terms = <<>>
    /\ term_fields = <<>>
    /\ translations = <<>>
    /\ dir_exists = FALSE
    /\ files = {}
    /\ latest = <<>>
    /\ pc = "idle"
    /\ fragment_file = NULL
    /\ result = "none"
    /\ published = {}
    /\ upstream \in Collections
    /\ has_new_schema \in BOOLEAN
    /\ hpc = "idle"
    /\ member_count = 0
    /\ offset = 0
    /\ stats = NoStats
    /\ harvested = 0
    /\ edits = 0
    /\ sources = StaticSource
    /\ Quiet
    /\ SoundInputs

NextHarvest ==
    \/ HarvestStart
    \/ HarvestBatch
    \/ UpstreamEdit
    \/ AddReview
    \/ Tick

SpecHarvest == InitHarvest /\ [][NextHarvest]_vars

----------------------------------------------------------------------------
(* Both entry points over inputs that can fail *)

SecureUri == <<"h", "t", "t", "p", "s", ":", "/", "/", "n", "/", "P">>

\* Identifiers that are not valid: no scheme, another scheme, a prohibited
\* character after a valid start.
BadUris ==
    { <<"n", "/", "P">>,
      <<"f", "t", "p", ":", "/", "/", "n", "/", "P">>,
      <<"h", "t", "t", "p", ":", "/", "/", "n", "/", ">", "P">>,
      <<"h", "t", "t", "p", "s", ":", "/", "/", "n", "/", "quote">> }

Uris == {GoodUri, SecureUri} \cup BadUris

\* The database file: absent, or present with all required tables or all
\* but one.
Databases ==
    {[exists |-> FALSE, tables |-> {}]}
        \cup {[exists |-> TRUE, tables |-> RequiredTables]}
        \cup {[exists |-> TRUE, tables |-> RequiredTables \ {t}] : t \in RequiredTables}

\* A collection of five members, one row each.
LongCollection ==
    <<Binding("c1", "prefLabel", "sea", "en"),
      Binding("c2", "prefLabel", "sea", "en"),
      Binding("c3", "prefLabel", "sea", "en"),
      Binding("c4", "prefLabel", "sea", "en"),
      Binding("c5", "prefLabel", "sea", "en")>>

EntryCollections == Collections \cup {<<>>, LongCollection}

\* translation_config: NULL, text that is not JSON, JSON that is a number,
\* an object without 'types', an object whose 'types' mixes items.
Configs ==
    { [kind |-> "null", has_types |-> FALSE, types |-> <<>>,
       timestampPath |-> "", versionOfPath |-> ""],
      [kind |-> "invalid", has_types |-> FALSE, types |-> <<>>,
       timestampPath |-> "", versionOfPath |-> ""],
      [kind |-> "number", has_types |-> FALSE, types |-> <<>>,
       timestampPath |-> "", versionOfPath |-> ""],
      [kind |-> "object", has_types |-> FALSE, types |-> <<>>,
       timestampPath |-> "", versionOfPath |-> ""],
      [kind |-> "object", has_types |-> TRUE,
       types |-> <<[is_dict |-> TRUE, has_type |-> TRUE, type |-> "skos:Concept"],
                   [is_dict |-> FALSE, has_type |-> FALSE, type |-> ""],
                   [is_dict |-> TRUE, has_type |-> FALSE, type |-> ""]>>,
       timestampPath |-> "", versionOfPath |-> ""] }

\* What the GET of the feed description can yield.
Feeds ==
    { [kind |-> "unreachable", timestampPath |-> "", versionOfPath |-> ""],
      [kind |-> "http_error", timestampPath |-> "", versionOfPath |-> ""],
      [kind |-> "unparsable", timestampPath |-> "", versionOfPath |-> ""],
      [kind |-> "turtle", timestampPath |-> "", versionOfPath |-> ""],
      [kind |-> "turtle", timestampPath |-> "http://ex/generatedAt", versionOfPath |-> ""],
      DeclaringFeed }

LdesSource == [StaticSource EXCEPT !.source_type = "LDES"]

\* A translation_config that names both property paths itself.
ExplicitConfig ==
    [StaticSource.translation_config EXCEPT !.timestampPath = "http://ex/configuredAt",
                                            !.versionOfPath = "http://ex/configuredOf"]

\* The source's row with the feed behind it: a feed source over every feed,
\* a static source over every configuration, a feed source without path
\* and no row at all.
SourceScenarios ==
    {[sources |-> LdesSource, feed |-> f] : f \in Feeds}
        \cup {[sources |-> [StaticSource EXCEPT !.translation_config = c],
                feed |-> DeclaringFeed] : c \in Configs}
        \cup {[sources |-> [LdesSource EXCEPT !.translation_config = c],
                feed |-> [kind |-> "unreachable", timestampPath |-> "",
                          versionOfPath |-> ""]] :
                    c \in {k \in Configs : k.kind \in {"null", "invalid"}}}
        \cup {[sources |-> [src EXCEPT !.translation_config = ExplicitConfig],
                feed |-> DeclaringFeed] : src \in {StaticSource, LdesSource}}
        \cup {[sources |-> [LdesSource EXCEPT !.has_path = FALSE], feed |-> DeclaringFeed],
               [sources |-> [StaticSource EXCEPT !.present = FALSE], feed |-> DeclaringFeed]}

\* A translation in review, made at the start of second 0.
ReviewedRow ==
    [term_field_id |-> 1, language |-> "es", value |-> "mar", status |-> "review",
     source |-> "user", created_at |-> 0, modified_at |-> NULL]

\* Nothing has run, and the feed directory does not exist.
NothingRun ==
    /\ now = 0
    /\ dir_exists = FALSE
    /\ files = {}
    /\ latest = <<>>
    /\ pc = "idle"
    /\ fragment_file = NULL
    /\ result = "none"
    /\ published = {}
    /\ hpc = "idle"
    /\ member_count = 0
    /\ offset = 0
    /\ stats = NoStats
    /\ harvested = 0
    /\ edits = 0
    /\ Quiet

\* Either the harvest's inputs vary, over an empty store, or the publish
\* run's inputs vary, over a store with a row in review.
InitEntry ==
    /\ NothingRun
    /\ \/ /\ collection_uri \in Uris
          /\ \E db \in Databases : db_exists = db.exists /\ tables = db.tables
          /\ upstream \in EntryCollections
          /\ endpoint = Responses
          /\ terms = <<>>
          /\ term_fields = <<>>
          /\ translations = <<>>
          /\ sources = StaticSource
          /\ feed = DeclaringFeed
       \/ /\ collection_uri = GoodUri
          /\ \E db \in Databases :
                /\ db.tables \in {{}, RequiredTables, RequiredTables \ {"sources"},
                                  RequiredTables \ {"translations"}}
                /\ db_exists = db.exists
                /\ tables = db.tables
          /\ upstream = <<>>
          /\ endpoint = {"ok"}
          /\ terms = IF "terms" \in tables THEN PublishTerms ELSE <<>>
          /\ term_fields = IF "term_fields" \in tables THEN PublishTermFields ELSE <<>>
          /\ translations = IF "translations" \in tables THEN <<ReviewedRow>> ELSE <<>>
          /\ \E sc \in SourceScenarios : sources = sc.sources /\ feed = sc.feed
    /\ has_new_schema = ("translations" \in tables)

NextEntry ==
    \/ HarvestStart
    \/ HarvestBatch
    \/ PublishSkipped
    \/ PublishFragment
    \/ PublishFailed
    \/ UpdateLatest

SpecEntry == InitEntry /\ [][NextEntry]_vars

----------------------------------------------------------------------------
(* Claims about the harvest *)

\* A step in which a harvest run merges one batch.
HarvestStep == hpc = "running" /\ offset' = offset + batch_size

\* C3: a batch merged by a harvest run that started after an earlier run
\* over the same upstream data inserts no term, no term field and no
\* translation; of the terms only updated_at may differ.
C3_IdempotentReharvest ==
    [][(harvested = 2 /\ HarvestStep)
          => /\ Len(terms') = Len(terms)
             /\ \A k \in 1..Len(terms) :
                   terms'[k] = [terms[k] EXCEPT !.updated_at = terms'[k].updated_at]
             /\ term_fields' = term_fields
             /\ translations' = translations]_vars

\* C3 witness: a second run over unchanged data has finished, over a store
\* that holds fields and originals, and has refreshed a term.
C3_Witness ==
    /\ harvested = 2
    /\ hpc = "idle"
    /\ stats.terms_updated > 0
    /\ term_fields # <<>>
    /\ translations # <<>>

\* C4: no step changes the original_value (or any column) of a term field
\* that exists, and none removes one.
C4_WriteOnce ==
    [][\A k \in 1..Len(term_fields) :
          k <= Len(term_fields') /\ term_fields'[k] = term_fields[k]]_vars

\* The rows of the first batch that carry a value for term field k.
FirstBatchRowsOf(k) ==
    {r \in 1..Len(upstream) :
        /\ r <= batch_size
        /\ upstream[r].concept = terms[term_fields[k].term_id].uri
        /\ upstream[r].property = term_fields[k].field_uri
        /\ ~IsBlank(upstream[r].value)}

\* C4 witness: a run over changed data has finished, and a term field still
\* holds a value that upstream no longer reports for it.
C4_Witness ==
    /\ harvested >= 1
    /\ hpc = "idle"
    /\ \E k \in 1..Len(term_fields) :
          /\ FirstBatchRowsOf(k) # {}
          /\ \A r \in FirstBatchRowsOf(k) : upstream[r].value # term_fields[k].original_value

\* C5: a batch merge leaves every review row as it is, at its id, and adds
\* no row with status review.
C5_CurationPreserved ==
    [][HarvestStep
          => /\ \A i \in RowIds :
                   translations[i].status = "review"
                      => i <= Len(translations') /\ translations'[i] = translations[i]
             /\ \A i \in (Len(translations) + 1)..Len(translations') :
                   translations'[i].status # "review"]_vars

\* C5 witness: a review row stands beside an original row of its field and
\* language, and the harvest has refreshed its term after it was made.
C5_Witness ==
    /\ hpc = "idle"
    /\ \E i \in RowIds, j \in RowIds :
          /\ translations[i].status = "review"
          /\ translations[j].status = "original"
          /\ translations[j].term_field_id = translations[i].term_field_id
          /\ translations[j].language = translations[i].language
          /\ TermOf(translations[i]).updated_at > translations[i].created_at

----------------------------------------------------------------------------
(* Claims about the entry points *)

\* The step in which main() of the harvest starts.
HarvestStarts ==
    hpc = "idle" /\ <<hpc', exit_code', io'>> # <<hpc, exit_code, io>>

\* The queries of a history that went to the endpoint.
QueriesSent(log) == {k \in 1..Len(log) : log[k].op \in {"count", "data"}}

\* C13: a harvest that starts on a valid identifier and a database that
\* lacks one of the tables terms, term_fields, translations, sources ends at
\* once with exit code 1, having sent no query to the endpoint and written
\* no row.
C13_SchemaPrecondition ==
    [][(/\ HarvestStarts
        /\ collection_uri \notin BadUris
        /\ db_exists
        /\ ~(RequiredTables \subseteq tables))
          => /\ hpc' = "idle"
             /\ exit_code' = 1
             /\ QueriesSent(io') = {}
             /\ UNCHANGED store_vars]_vars

\* C14: a harvest that starts on an identifier that is not valid ends at
\* once with exit code 1 and has tested no file, opened no database, sent no
\* count query and no data query and written no row; and a query is only
\* ever sent for an identifier that is valid.
C14_ValidationFirst ==
    [][/\ (HarvestStarts /\ collection_uri \in BadUris)
              => /\ io' = <<>>
                 /\ hpc' = "idle"
                 /\ exit_code' = 1
                 /\ UNCHANGED store_vars
       /\ \A k \in 1..Len(io') :
              io'[k].op \in {"count", "data", "raised"} => collection_uri \notin BadUris]_vars

\* A harvest was refused for an identifier with a valid scheme and a
\* prohibited character.
C14_Witness ==
    /\ validate_collection_uri_SchemeOnly(collection_uri)
    /\ \E k \in 1..Len(collection_uri) : collection_uri[k] \in Prohibited
    /\ exit_code = 1
    /\ io = <<>>

\* The events of a history with the given operation.
EventsOf(log, op) == {k \in 1..Len(log) : log[k].op = op}

\* The harvest whose history is io did all it had to do: the count query
\* was answered and every batch of the collection was committed.
HarvestSucceeded ==
    /\ \E k \in EventsOf(io, "count") : io[k].response = "ok"
    /\ Cardinality(EventsOf(io, "commit")) = Cardinality(BatchOffsets(member_count))

\* The harvest whose history is io failed: on the identifier, on the
\* database file, on the schema, on a statement, or on a query that was not
\* answered and not tried again.
HarvestFailed ==
    \/ collection_uri \in BadUris
    \/ ~db_exists
    \/ "terms" \notin tables
    \/ /\ io # <<>>
       /\ io[Len(io)].op \in {"count", "data"}
       /\ io[Len(io)].response # "ok"
    \/ /\ io # <<>>
       /\ io[Len(io)].op = "data"
       /\ io[Len(io)].response = "ok"

PublishRunStarts ==
    pc = "idle" /\ <<pc', result', ldes_exit_code'>> # <<pc, result, ldes_exit_code>>

\* The source is a feed whose description cannot be fetched, is answered
\* with an HTTP error, cannot be parsed or declares neither property.
FeedFails ==
    /\ sources.present
    /\ sources.source_type = "LDES"
    /\ sources.has_path
    /\ \/ feed.kind \in {"unreachable", "http_error", "unparsable"}
       \/ feed.kind = "turtle" /\ feed.timestampPath = "" /\ feed.versionOfPath = ""

\* The source's translation_config is missing or malformed.
ConfigFails ==
    /\ sources.present
    /\ sources.translation_config.kind \in {"null", "invalid", "number"}

\* C16: a publish run on a readable store, for a source whose feed
\* description fails or whose translation_config is missing or malformed,
\* is skipped when nothing is selected and otherwise writes its fragment,
\* with the default paths after a feed failure and no type after a
\* configuration failure (or is refused by the sink because the file
\* exists), and a run that has written its fragment ends in success with
\* exit code 0.
C16_MetadataNeverFatal ==
    [][/\ (/\ PublishRunStarts
           /\ StoreReadable
           /\ "sources" \in tables
           /\ FeedFails \/ ConfigFails)
              => IF SelectTranslations = <<>>
                 THEN result' = "skipped" /\ ldes_exit_code' = 0 /\ pc' = "idle"
                 ELSE \/ /\ pc' = "written"
                         /\ \E f \in FilesWritten :
                               /\ FilesWritten = {f}
                               /\ FeedFails
                                     => /\ f.ldes_timestampPath_property = default_timestamp
                                        /\ f.ldes_versionOfPath_property = default_versionof
                               /\ ConfigFails => f.types = <<>>
                      \/ /\ FragmentTimestamp(SelectTranslations) \in FragmentNames
                         /\ result' = "error"
       /\ (pc = "written" /\ pc' = "idle" /\ (FeedFails \/ ConfigFails))
              => result' = "success" /\ ldes_exit_code' = 0]_vars

\* A run ended in success for a feed source whose description is
\* unreachable and whose translation_config is not JSON, and its fragment
\* has the default paths and no type.
C16_Witness ==
    /\ result = "success"
    /\ ldes_exit_code = 0
    /\ sources.source_type = "LDES"
    /\ feed.kind = "unreachable"
    /\ sources.translation_config.kind = "invalid"
    /\ latest # <<>>
    /\ latest[1].types = <<>>
    /\ latest[1].ldes_timestampPath_property = default_timestamp
    /\ latest[1].ldes_versionOfPath_property = default_versionof

\* C18: in the history of a harvest every fetch is attempted at most
\* max_retries times, attempts counted from 0; an attempt after the first
\* follows an attempt of the same fetch that got HTTP 502 and a sleep of
\* base_delay * 2^attempt seconds, attempt being the number of the one that
\* failed; no sleep occurs otherwise; and an attempt that got a result is
\* followed by the commit of its batch, never by another attempt.
C18_BoundedRetry ==
    /\ \A k \in EventsOf(io, "data") :
          /\ io[k].attempt \in 0..(max_retries - 1)
          /\ io[k].attempt > 0
                => /\ k > 2
                   /\ io[k - 1].op = "sleep"
                   /\ io[k - 2].op = "data"
                   /\ io[k - 2].response = "502"
                   /\ io[k - 2].offset = io[k].offset
                   /\ io[k - 2].attempt = io[k].attempt - 1
          /\ k < Len(io)
                => IF io[k].response = "ok"
                   THEN io[k + 1].op = "commit"
                   ELSE /\ io[k].response = "502"
                        /\ io[k + 1].op = "sleep"
    /\ \A k \in EventsOf(io, "sleep") :
          /\ k > 1
          /\ io[k - 1].op = "data"
          /\ io[k - 1].response = "502"
          /\ io[k].delay = base_delay * (2 ^ io[k - 1].attempt)
          /\ k < Len(io)
                => /\ io[k + 1].op = "data"
                   /\ io[k + 1].offset = io[k - 1].offset
                   /\ io[k + 1].attempt = io[k - 1].attempt + 1

\* A fetch got HTTP 502 twice, slept 1 and 2 seconds, got its result at
\* the third attempt, and its batch was committed.
C18_Witness ==
    \E k \in EventsOf(io, "data") :
        /\ io[k].attempt = 2
        /\ io[k].response = "ok"
        /\ io[k - 1].delay = 2
        /\ io[k - 3].delay = 1
        /\ k < Len(io)
        /\ io[k + 1].op = "commit"

\* A step of the batch loop whose attempt fails for good: the query it
\* sends gets no result and no sleep follows it.
FetchFails ==
    /\ hpc = "running"
    /\ Len(io') = Len(io) + 1
    /\ io'[Len(io')].op = "data"
    /\ io'[Len(io')].response # "ok"

\* C19: a fetch that gets an error other than HTTP 502, or HTTP 502 at its
\* last attempt, ends the harvest in that step with exit code 1 and the
\* store as the batches committed before left it; and a harvest that has
\* ended with exit code 1 sends no query and writes no row until another
\* harvest starts.
C19_FetchFailureAborts ==
    [][/\ FetchFails
              => /\ \/ io'[Len(io')].response # "502"
                    \/ io'[Len(io')].attempt = max_retries - 1
                 /\ hpc' = "idle"
                 /\ exit_code' = 1
                 /\ UNCHANGED store_vars
       /\ (hpc = "running" /\ Len(io') > Len(io) /\ io'[Len(io')].op = "sleep")
              => /\ io'[Len(io') - 1].response = "502"
                 /\ io'[Len(io') - 1].attempt < max_retries - 1
       /\ (hpc = "idle" /\ exit_code = 1 /\ ~HarvestStarts)
              => UNCHANGED <<io, terms, term_fields, translations, hpc, exit_code>>]_vars

\* A harvest committed its first batch, its second fetch got HTTP 502 three
\* times, and it ended with exit code 1 and the first batch's rows in the
\* store.
C19_Witness ==
    /\ hpc = "idle"
    /\ exit_code = 1
    /\ Cardinality(EventsOf(io, "commit")) = 1
    /\ io[Len(io)].op = "data"
    /\ io[Len(io)].response = "502"
    /\ io[Len(io)].attempt = 2
    /\ io[Len(io)].offset = batch_size
    /\ terms # <<>>

\* The paginated fetches of the history, in the order they were issued: the
\* first attempt of each.
Fetches == SelectSeq(io, LAMBDA e : e.op = "data" /\ e.attempt = 0)

\* C20: once the count query is answered with c, the paginated fetches have
\* the offsets 0, batch_size, 2 * batch_size, ... in that order, below c,
\* each attempt with LIMIT batch_size; and a harvest that ended with exit
\* code 0 issued exactly ceil(c / batch_size) of them, none for c = 0.
C20_BatchPlan ==
    (\E k \in EventsOf(io, "count") : io[k].response = "ok")
        => /\ \A k \in 1..Len(Fetches) :
                 /\ Fetches[k].offset = (k - 1) * batch_size
                 /\ Fetches[k].offset < member_count
           /\ \A k \in EventsOf(io, "data") : io[k].limit = batch_size
           /\ (hpc = "idle" /\ exit_code = 0)
                 => /\ Len(Fetches) = (member_count + batch_size - 1) \div batch_size
                    /\ member_count = 0 => EventsOf(io, "data") = {}

\* A harvest of a collection of five members ended with exit code 0 after
\* three fetches, at offsets 0, batch_size and 2 * batch_size.
C20_Witness ==
    /\ hpc = "idle"
    /\ exit_code = 0
    /\ member_count = 5
    /\ Len(Fetches) = 3
    /\ Fetches[3].offset = 2 * batch_size

----------------------------------------------------------------------------
(* Two publish processes for the same source *)

MaxSeconds == 2

\* The clock reaches the next second.
TickSecond ==
    /\ now + TicksPerSec <= MaxSeconds * TicksPerSec
    /\ now' = now + TicksPerSec
    /\ UNCHANGED <<harvest_vars, other_vars, store_vars, feed_vars, publish_vars>>

\* What a process leaves alone whatever its step.
UntouchedByRun ==
    UNCHANGED <<now, store_vars, harvest_vars, input_vars, arg, ret, interrupted_at, pc,
                fragment_file>>

\* What starting process r does: main() has found the database file and
\* calls create_or_update_ldes.
Started(r) ==
    /\ runs' = [runs EXCEPT ![r].pc = "started"]
    /\ UNCHANGED <<feed_vars, published, result, ldes_exit_code>>
    /\ UntouchedByRun

\* A process that starts only while no other process is under way.
RunStart_Exclusive(r) ==
    /\ runs[r].pc = "idle"
    /\ db_exists
    /\ \A q \in Runs \ {r} : runs[q].pc = "idle"
    /\ Started(r)

RunStart(r) ==
    /\ runs[r].pc = "idle"
    /\ db_exists
    /\ Started(r)

\* Steps 1 to 4 of process r found nothing to publish: it returns 'skipped'.
RunSkipped(r) ==
    /\ runs[r].pc = "started"
    /\ StoreReadable
    /\ SelectTranslations = <<>>
    /\ result' = "skipped"
    /\ ldes_exit_code' = ExitCodeOf("skipped")
    /\ runs' = [runs EXCEPT ![r] = IdleRun]
    /\ UNCHANGED <<feed_vars, published>>
    /\ UntouchedByRun

\* Steps 1 to 4 of process r: it keeps the rows it selected.
RunSelect(r) ==
    /\ runs[r].pc = "started"
    /\ StoreReadable
    /\ SelectTranslations # <<>>
    /\ runs' = [runs EXCEPT ![r] = [pc |-> "selected", rows |-> SelectTranslations,
                                    prev |-> NULL]]
    /\ UNCHANGED <<feed_vars, published, result, ldes_exit_code>>
    /\ UntouchedByRun

\* Step 5b of process r: get_previous_fragment reads the directory.
RunPrevious(r) ==
    /\ runs[r].pc = "selected"
    /\ runs' = [runs EXCEPT ![r].pc = "prepared", ![r].prev = get_previous_fragment]
    /\ UNCHANGED <<feed_vars, published, result, ldes_exit_code>>
    /\ UntouchedByRun

\* Step 6 of process r: the fragment is written under the name its rows
\* give it, with the predecessor the process read at step 5b.
RunWrite(r) ==
    /\ runs[r].pc = "prepared"
    /\ LET content == [NewFragment(runs[r].rows)
                          EXCEPT !.prev_fragment_timestamp = runs[r].prev]
       IN  \E outcome \in SinkOutcomes(content.fragment_timestamp) :
             /\ dir_exists' = TRUE
             /\ IF outcome = "written"
                THEN /\ files' = WriteFragment(content)
                     /\ runs' = [runs EXCEPT ![r].pc = "written"]
                     /\ published' = published \cup Versions(runs[r].rows)
                     /\ UNCHANGED <<result, ldes_exit_code>>
                ELSE /\ runs' = [runs EXCEPT ![r] = IdleRun]
                     /\ result' = "error"
                     /\ ldes_exit_code' = 1
                     /\ UNCHANGED <<files, published>>
    /\ UNCHANGED latest
    /\ UntouchedByRun

\* Step 7 of process r: its fragment is copied over latest.ttl.
RunCopy(r) ==
    /\ runs[r].pc = "written"
    /\ latest' = <<FileNamed(FragmentTimestamp(runs[r].rows))>>
    /\ runs' = [runs EXCEPT ![r] = IdleRun]
    /\ result' = "success"
    /\ ldes_exit_code' = ExitCodeOf("success")
    /\ UNCHANGED <<dir_exists, files, published>>
    /\ UntouchedByRun

NextConcurrent ==
    \/ TickSecond
    \/ AddReview
    \/ ModifyReview
    \/ \E r \in Runs : RunStart(r)
    \/ \E r \in Runs : RunSkipped(r)
    \/ \E r \in Runs : RunSelect(r)
    \/ \E r \in Runs : RunPrevious(r)
    \/ \E r \in Runs : RunWrite(r)
    \/ \E r \in Runs : RunCopy(r)

\* The store holds two terms of the source, one field each, and no
\* translation; nothing has run.
InitConcurrent ==
    /\ NothingRun
    /\ SoundInputs
    /\ terms = SubSeq(PublishTerms, 1, 2)
    /\ term_fields = SubSeq(PublishTermFields, 1, 2)
    /\ translations = <<>>
    /\ sources = StaticSource
    /\ upstream = <<>>
    /\ has_new_schema = TRUE

SpecConcurrent == InitConcurrent /\ [][NextConcurrent]_vars

----------------------------------------------------------------------------
(* Claims about concurrent publication *)

\* C17: nothing keeps a publish process from starting while another is
\* under way, and a process writes its fragment with the predecessor it
\* read, whatever was written since; so two distinct fragments with the same
\* predecessor can come to exist.
C17_NoMutualExclusion ==
    [][/\ \A r \in Runs :
              runs[r].pc = "idle" => ENABLED RunStart(r)
       /\ \A r \in Runs :
              (runs[r].pc = "prepared" /\ runs'[r].pc = "written")
                 => \E f \in files' :
                       /\ f.fragment_timestamp = FragmentTimestamp(runs[r].rows)
                       /\ f.prev_fragment_timestamp = runs[r].prev]_vars

\* Two distinct fragments name the same fragment as their predecessor.
C17_Witness ==
    \E f, g \in files :
        /\ f.fragment_timestamp # g.fragment_timestamp
        /\ f.prev_fragment_timestamp # NULL
        /\ f.prev_fragment_timestamp = g.prev_fragment_timestamp

----------------------------------------------------------------------------
(* Harvest processes that are killed and run again *)

\* The harvest process is killed, between two batches or inside
\* insert_results: what the merge under way has written is not committed
\* (conn.commit() is its last statement) and is rolled back.
HarvestInterrupt ==
    /\ hpc = "running"
    /\ hpc' = "idle"
    /\ exit_code' = NULL
    /\ interrupted_at' = offset
    /\ UNCHANGED <<now, store_vars, feed_vars, publish_vars, input_vars, runs, arg, ret,
                   upstream, has_new_schema, member_count, offset, stats, harvested,
                   edits, attempt, io>>

\* An empty store with either schema, a collection that does not change
\* and an endpoint that may fail.
InitResume ==
    /\ NothingRun
    /\ SoundInputs
    /\ terms = <<>>
    /\ term_fields = <<>>
    /\ translations = <<>>
    /\ sources = StaticSource
    /\ upstream \in EntryCollections
    /\ has_new_schema \in BOOLEAN

NextResume ==
    \/ HarvestStart
    \/ HarvestBatch
    \/ HarvestInterrupt
    \/ Tick

SpecResume == InitResume /\ [][NextResume]_vars

\* The batch loop of main() run from OFFSET at to its end without a stop.
RECURSIVE HarvestFrom(_, _)
HarvestFrom(st, at) ==
    IF at >= get_member_count THEN st
    ELSE HarvestFrom(insert_results(st, query_sparql_endpoint(batch_size, at)),
                     at + batch_size)

\* The store one harvest of the collection leaves when it starts on an
\* empty store and is not stopped.
Uninterrupted ==
    HarvestFrom([terms |-> <<>>, term_fields |-> <<>>, translations |-> <<>>,
                 stats |-> NoStats, has_new_schema |-> has_new_schema], 0)

\* Rows of table terms without the time of their last harvest, rows of
\* table translations without the time of their insertion.
Timeless(rows) == [k \in 1..Len(rows) |-> [rows[k] EXCEPT !.updated_at = 0]]
Undated(rows) == [k \in 1..Len(rows) |-> [rows[k] EXCEPT !.created_at = 0]]

----------------------------------------------------------------------------
(* Claims about interrupted harvests *)

\* C21: a batch after the first is requested only when every batch before
\* it has been committed; and a harvest that runs to its end, after any
\* number of harvests of the same collection that were killed between two
\* batches or inside a merge, leaves the terms (but for updated_at), the
\* term fields and the translations (but for created_at) that one harvest
\* that was not stopped leaves, row for row and id for id.
C21_SequentialResumable ==
    /\ \A k \in EventsOf(io, "data") :
          /\ Cardinality({j \in EventsOf(io, "commit") : j < k}) * batch_size = io[k].offset
          /\ (io[k].offset > 0 /\ io[k].attempt = 0) => io[k - 1].op = "commit"
    /\ (hpc = "idle" /\ exit_code = 0)
          => /\ Timeless(terms) = Timeless(Uninterrupted.terms)
             /\ term_fields = Uninterrupted.term_fields
             /\ Undated(translations) = Undated(Uninterrupted.translations)

\* A harvest was killed after it had committed a batch, and a later harvest
\* of the same collection has run to its end.
C21_Witness ==
    /\ interrupted_at # NULL
    /\ interrupted_at > 0
    /\ hpc = "idle"
    /\ exit_code = 0
    /\ Cardinality(EventsOf(io, "commit")) > 1
    /\ translations # <<>>

----------------------------------------------------------------------------
(* The predecessor lookup applied on its own *)

MaxEpoch == 2

\* The names a feed directory may hold: fragments, files with an integer
\* stem and another extension, the pointer, a *.ttl file whose stem is no
\* integer.
DirNames ==
    {FileName("int", n, ext) : n \in 0..MaxEpoch, ext \in {"ttl", "txt"}}
        \cup {LatestName, FileName("text", NULL, "ttl")}

\* No directory, or a directory with any of the names.
Directories ==
    {[exists |-> FALSE, listing |-> {}]}
        \cup {[exists |-> TRUE, listing |-> l] : l \in SUBSET DirNames}

\* get_previous_fragment(source_id) is called and returns.
CallPrevious ==
    /\ ~ret.done
    /\ ret' = [done |-> TRUE, value |-> PreviousFragmentIn(arg.exists, arg.listing)]
    /\ UNCHANGED <<now, store_vars, feed_vars, publish_vars, harvest_vars, input_vars,
                   runs, arg, interrupted_at>>

InitLookup ==
    /\ now = 0
    /\ terms = PublishTerms
    /\ term_fields = PublishTermFields
    /\ translations = <<>>
    /\ dir_exists = FALSE
    /\ files = {}
    /\ latest = <<>>
    /\ pc = "idle"
    /\ fragment_file = NULL
    /\ result = "none"
    /\ published = {}
    /\ upstream = <<>>
    /\ has_new_schema = TRUE
    /\ hpc = "idle"
    /\ member_count = 0
    /\ offset = 0
    /\ stats = NoStats
    /\ harvested = 0
    /\ edits = 0
    /\ sources = StaticSource
    /\ attempt = 0
    /\ io = <<>>
    /\ exit_code = NULL
    /\ ldes_exit_code = NULL
    /\ runs = [r \in Runs |-> IdleRun]
    /\ SoundInputs
    /\ arg \in Directories
    /\ ret = NoReturn
    /\ interrupted_at = NULL

NextLookup == CallPrevious

SpecLookup == InitLookup /\ [][NextLookup]_vars

\* The integers that name a fragment of the directory handed over.
EpochsListed == {n \in 0..MaxEpoch : FileName("int", n, "ttl") \in arg.listing}

\* C22: get_previous_fragment returns the greatest integer that is the
\* stem of a *.ttl file of the directory other than latest.ttl, and none
\* when the directory is absent or holds no such file; a file whose stem is
\* no integer and a file with another extension count for nothing, and the
\* result is the same with and without the pointer file.
C22_PredecessorLookup ==
    ret.done
        => /\ IF ~arg.exists \/ EpochsListed = {}
              THEN ret.value = NULL
              ELSE /\ ret.value \in EpochsListed
                   /\ \A n \in EpochsListed : n <= ret.value
           /\ ret.value = PreviousFragmentIn(arg.exists, arg.listing \cup {LatestName})
           /\ ret.value = PreviousFragmentIn(arg.exists, arg.listing \ {LatestName})

\* The lookup returned the highest fragment of a directory that has no
\* pointer and holds a *.ttl file whose stem is no integer.
C22_Witness ==
    /\ ret.done
    /\ LatestName \notin arg.listing
    /\ FileName("text", NULL, "ttl") \in arg.listing
    /\ Cardinality(EpochsListed) > 1
    /\ ret.value = MaxEpoch

----------------------------------------------------------------------------
(* Claims about the cursor and the state of the feed *)

\* The time of a row of table translations: modified_at, or created_at
\* where that is NULL.
TimeOf(i) ==
    IF translations[i].modified_at # NULL THEN translations[i].modified_at
    ELSE translations[i].created_at

\* The ids of the rows the run that starts now publishes.
SelectedIds == {SelectTranslations[k].translation_id : k \in 1..Len(SelectTranslations)}

\* C23: a run that reads a cursor from latest.ttl and writes a fragment puts
\* into it only rows with status review of the source whose time is after
\* the cursor, each with that time; no row whose time is the cursor is in
\* the fragment.
C23_CursorExclusive ==
    [][(WritesFragment /\ Cursor # NULL)
          => /\ \A i \in SelectedIds :
                   /\ i \in RowIds
                   /\ translations[i].status = "review"
                   /\ TermOf(translations[i]).source_id = SourceId
                   /\ TimeOf(i) > Cursor
             /\ \A i \in RowIds : TimeOf(i) = Cursor => i \notin SelectedIds
             /\ \A k \in 1..Len(SelectTranslations) :
                   SelectTranslations[k].modified_at = TimeOf(SelectTranslations[k].translation_id)
             /\ \E f \in files' :
                   /\ f.fragment_timestamp = fragment_file'
                   /\ f.ldes_data = prepare_ldes_data(SelectTranslations)]_vars

\* A run with a cursor has written a new fragment while a row in review has
\* the cursor as its time.
C23_Witness ==
    /\ pc = "written"
    /\ Cursor # NULL
    /\ fragment_file # latest[1].fragment_timestamp
    /\ \E i \in RowIds :
          /\ translations[i].status = "review"
          /\ TermOf(translations[i]).source_id = SourceId
          /\ TimeOf(i) = Cursor

----------------------------------------------------------------------------
(* Publish runs over every state of the feed directory *)

\* A fragment as an earlier run rendered it: one record of the first term,
\* modified in the given second.
OldFragment(name, prev) ==
    [fragment_timestamp |-> name,
     prev_fragment_timestamp |-> prev,
     ldes_data |-> <<[concept |-> "http://ex/1", modified |-> name,
                      fields |-> <<[field_uri |-> "definition",
                                    values |-> <<[value |-> "mar", language |-> "es"]>>]>>]>>,
     types |-> <<"skos:Concept">>,
     ldes_timestampPath_property |-> default_timestamp,
     ldes_versionOfPath_property |-> default_versionof]

\* A pointer file in which no dcterms:modified can be read.
UnreadablePointer == [OldFragment(0, NULL) EXCEPT !.ldes_data = <<>>]

\* The directory as a run may find it: absent; empty; a fragment without
\* pointer; a fragment and its pointer; two fragments and the pointer of the
\* first; a fragment and a pointer without date; a pointer without fragment.
FeedStates ==
    { [dir_exists |-> FALSE, files |-> {}, latest |-> <<>>],
      [dir_exists |-> TRUE, files |-> {}, latest |-> <<>>],
      [dir_exists |-> TRUE, files |-> {OldFragment(0, NULL)}, latest |-> <<>>],
      [dir_exists |-> TRUE, files |-> {OldFragment(0, NULL)},
       latest |-> <<OldFragment(0, NULL)>>],
      [dir_exists |-> TRUE, files |-> {OldFragment(0, NULL), OldFragment(1, 0)},
       latest |-> <<OldFragment(0, NULL)>>],
      [dir_exists |-> TRUE, files |-> {OldFragment(0, NULL)},
       latest |-> <<UnreadablePointer>>],
      [dir_exists |-> TRUE, files |-> {}, latest |-> <<OldFragment(0, NULL)>>] }

\* The store holds the row the old fragments were rendered from, in review
\* since second 0 and modified in second 1 where a fragment of second 1
\* exists, or no row where the directory is absent or empty.
InitFeedStates ==
    /\ \E fs \in FeedStates :
          /\ dir_exists = fs.dir_exists
          /\ files = fs.files
          /\ latest = fs.latest
          /\ translations =
                IF fs.files = {} /\ fs.latest = <<>> THEN <<>>
                ELSE IF Cardinality(fs.files) > 1
                THEN <<[ReviewedRow EXCEPT !.modified_at = TicksPerSec]>>
                ELSE <<ReviewedRow>>
          /\ now = IF Cardinality(fs.files) > 1 THEN TicksPerSec ELSE 0
    /\ terms = PublishTerms
    /\ term_fields = PublishTermFields
    /\ sources = StaticSource
    /\ pc = "idle"
    /\ fragment_file = NULL
    /\ result = "none"
    /\ published = {}
    /\ upstream = <<>>
    /\ has_new_schema = TRUE
    /\ hpc = "idle"
    /\ member_count = 0
    /\ offset = 0
    /\ stats = NoStats
    /\ harvested = 0
    /\ edits = 0
    /\ Quiet
    /\ SoundInputs

NextFeedStates ==
    \/ Tick
    \/ AddReview
    \/ ModifyReview
    \/ PublishSkipped
    \/ PublishFragment
    \/ UpdateLatest

SpecFeedStates == InitFeedStates /\ [][NextFeedStates]_vars

\* The rows with status review of the source.
AllReview ==
    {i \in RowIds : /\ translations[i].status = "review"
                    /\ TermOf(translations[i]).source_id = SourceId}

\* The modification times that can be read in latest.ttl.
PointerTimes ==
    IF latest = <<>> THEN {}
    ELSE {latest[1].ldes_data[k].modified : k \in 1..Len(latest[1].ldes_data)}

\* C24: a publish run that starts with the directory absent or empty has no
\* cursor and selects every review row of the source; with latest.ttl
\* present and a date in it, its cursor is the greatest of these dates and
\* it selects the review rows after it; with fragments but no latest.ttl,
\* or a latest.ttl without date, it has no cursor and selects every review
\* row of the source; it is skipped when it selects nothing, and a fragment
\* it writes names as predecessor the highest fragment of the directory,
\* none when there is none.
C24_FeedStateDetection ==
    [][PublishStarts
          => LET fresh == ~dir_exists \/ (latest = <<>> /\ files = {})
                 known == dir_exists /\ latest # <<>> /\ PointerTimes # {}
                 highest == IF files = {} THEN NULL
                            ELSE CHOOSE n \in FragmentNames : \A m \in FragmentNames : m <= n
                 expected == IF known
                             THEN {i \in AllReview :
                                      TimeOf(i) > Max(PointerTimes) * TicksPerSec}
                             ELSE AllReview
             IN  /\ Cursor = IF known THEN Max(PointerTimes) * TicksPerSec ELSE NULL
                 /\ SelectedIds = expected
                 /\ expected = {} => (result' = "skipped" /\ UNCHANGED feed_vars)
                 /\ expected # {} => result' # "skipped"
                 /\ fresh => detect_existing_ldes.exists = FALSE
                 /\ pc' = "written"
                       => \E f \in files' :
                             /\ f.fragment_timestamp = fragment_file'
                             /\ f.prev_fragment_timestamp = highest]_vars

\* A run over a directory whose latest.ttl holds no date has written a
\* fragment that names the old fragment as its predecessor.
C24_Witness ==
    /\ pc = "written"
    /\ latest = <<UnreadablePointer>>
    /\ FileNamed(fragment_file).prev_fragment_timestamp = 0
    /\ fragment_file = 1

----------------------------------------------------------------------------
(* Claims about the feed metadata *)

\* The path the three tiers give: the one the configuration names, else
\* the one the feed description of a feed source declares, else the default.
ThreeTier(configured, declared, default) ==
    IF sources.translation_config.kind = "object" /\ configured # "" THEN configured
    ELSE IF /\ sources.source_type = "LDES"
            /\ sources.has_path
            /\ feed.kind = "turtle"
            /\ declared # ""
    THEN declared
    ELSE default

\* The types a configuration declares: the 'type' of each item of 'types'
\* that is an object with one.
DeclaredTypes ==
    LET config == sources.translation_config
        typed == IF config.kind = "object" /\ config.has_types
                 THEN SelectSeq(config.types, LAMBDA item : item.is_dict /\ item.has_type)
                 ELSE <<>>
    IN  [k \in 1..Len(typed) |-> typed[k].type]

\* C25: the fragment a publish run writes for a source that has its row
\* carries as timestamp path and as version-of path the value the source's
\* configuration names, else the value the feed description of a feed
\* source declares, else the default; and as types those the configuration
\* declares.
C25_ThreeTierFallback ==
    [][(WritesFragment /\ "sources" \in tables /\ sources.present)
          => \E f \in files' :
                /\ f.fragment_timestamp = fragment_file'
                /\ f.ldes_timestampPath_property =
                      ThreeTier(sources.translation_config.timestampPath,
                                feed.timestampPath, default_timestamp)
                /\ f.ldes_versionOfPath_property =
                      ThreeTier(sources.translation_config.versionOfPath,
                                feed.versionOfPath, default_versionof)
                /\ f.types = DeclaredTypes]_vars

----------------------------------------------------------------------------
(* The validation applied on its own *)

\* Identifiers put together from a start, a host and a rest: the two
\* schemes, other schemes, none, a scheme in capitals or after a blank;
\* the expected authority or another host; a rest with one prohibited
\* character or none.
Starts ==
    { <<"h", "t", "t", "p", ":", "/", "/">>,
      <<"h", "t", "t", "p", "s", ":", "/", "/">>,
      <<"f", "t", "p", ":", "/", "/">>,
      <<"H", "T", "T", "P", ":", "/", "/">>,
      <<" ", "h", "t", "t", "p", ":", "/", "/">>,
      <<"h", "t", "t", "p", ":", "/">>,
      <<>> }

Hosts == {Authority, <<"n">>, <<>>}

Rests == {<<>>, <<"/", "P">>, <<"/", "P", " ">>} \cup {<<"/", c, "P">> : c \in Prohibited}

Identifiers == {start \o host \o rest : start \in Starts, host \in Hosts, rest \in Rests}

\* One call of validate_collection_uri: whether it returned, and whether
\* it printed the warning.
CallValidate ==
    /\ ~ret.done
    /\ ret' = [done |-> TRUE,
               value |-> [accepted |-> validate_collection_uri(arg),
                          warned |-> WarnsHost(arg)]]
    /\ UNCHANGED <<now, store_vars, feed_vars, publish_vars, harvest_vars, input_vars,
                   runs, arg, interrupted_at>>

InitValidate ==
    /\ now = 0
    /\ terms = PublishTerms
    /\ term_fields = PublishTermFields
    /\ translations = <<>>
    /\ dir_exists = FALSE
    /\ files = {}
    /\ latest = <<>>
    /\ pc = "idle"
    /\ fragment_file = NULL
    /\ result = "none"
    /\ published = {}
    /\ upstream = <<>>
    /\ has_new_schema = TRUE
    /\ hpc = "idle"
    /\ member_count = 0
    /\ offset = 0
    /\ stats = NoStats
    /\ harvested = 0
    /\ edits = 0
    /\ sources = StaticSource
    /\ attempt = 0
    /\ io = <<>>
    /\ exit_code = NULL
    /\ ldes_exit_code = NULL
    /\ runs = [r \in Runs |-> IdleRun]
    /\ SoundInputs
    /\ arg \in Identifiers
    /\ ret = NoReturn
    /\ interrupted_at = NULL

NextValidate == CallValidate

SpecValidate == InitValidate /\ [][NextValidate]_vars

\* The characters of an identifier.
CharsOf(uri) == {uri[k] : k \in 1..Len(uri)}

\* The first n characters of an identifier, all of it when it is shorter.
Prefix(uri, n) == SubSeq(uri, 1, IF n < Len(uri) THEN n ELSE Len(uri))

\* C26: validate_collection_uri returns exactly for the identifiers that
\* start with http:// or https:// and hold no prohibited character, and
\* raises for every other; an identifier without the expected authority
\* that is otherwise valid is accepted with a warning, and no warning
\* comes with a rejection.
C26_ValidationRule ==
    ret.done =>
        LET schemed == \/ Prefix(arg, 7) = <<"h", "t", "t", "p", ":", "/", "/">>
                       \/ Prefix(arg, 8) = <<"h", "t", "t", "p", "s", ":", "/", "/">>
            clean == CharsOf(arg) \cap Prohibited = {}
        IN  /\ ret.value.accepted <=> (schemed /\ clean)
            /\ (schemed /\ clean /\ ~Contains(arg, Authority))
                  => (ret.value.accepted /\ ret.value.warned)
            /\ ret.value.warned => ret.value.accepted

\* An identifier of another host was accepted with a warning, and the
\* identifiers of the call are of every kind.
C26_Witness ==
    /\ ret.done
    /\ arg = <<"h", "t", "t", "p", "s", ":", "/", "/", "n", "/", "P">>
    /\ ret.value.accepted
    /\ ret.value.warned
    /\ \E uri \in Identifiers : ~validate_collection_uri(uri) /\ Contains(uri, Authority)
    /\ \E uri \in Identifiers : validate_collection_uri(uri) /\ ~WarnsHost(uri)

----------------------------------------------------------------------------
(* The merge of one batch applied on its own *)

MaxBatch == 3

BatchConcepts == {"c1", "c2"}
BatchProperties == {"altLabel", "definition"}
BatchValues == {"sea", "ocean", " ", ""}
BatchLanguages == {"en", "es"}

BatchRows ==
    {Binding(c, p, v, l) : c \in BatchConcepts, p \in BatchProperties,
                           v \in BatchValues, l \in BatchLanguages}

\* The place of a row in ORDER BY ?concept ?property.
OrderKey(row) ==
    (IF row.concept = "c1" THEN 0 ELSE 2) + (IF row.property = "altLabel" THEN 0 ELSE 1)

\* The batches the data query can give: up to MaxBatch rows in the order
\* of the query, rows of one concept and property in any order.
Batches ==
    {batch \in UNION {[1..n -> BatchRows] : n \in 1..MaxBatch} :
        \A k \in 1..(Len(batch) - 1) : OrderKey(batch[k]) <= OrderKey(batch[k + 1])}

\* One call of insert_results on the store.
CallMerge ==
    /\ ~ret.done
    /\ LET st == insert_results(
                     [terms |-> terms, term_fields |-> term_fields,
                      translations |-> translations, stats |-> stats,
                      has_new_schema |-> has_new_schema],
                     arg)
       IN  /\ terms' = st.terms
           /\ term_fields' = st.term_fields
           /\ translations' = st.translations
           /\ stats' = st.stats
    /\ ret' = [done |-> TRUE, value |-> <<>>]
    /\ UNCHANGED <<now, sources, feed_vars, publish_vars, input_vars, runs, arg,
                   interrupted_at, upstream, has_new_schema, hpc, member_count, offset,
                   harvested, edits, attempt, io, exit_code>>

InitMerge ==
    /\ now = 0
    /\ terms = <<>>
    /\ term_fields = <<>>
    /\ translations = <<>>
    /\ dir_exists = FALSE
    /\ files = {}
    /\ latest = <<>>
    /\ pc = "idle"
    /\ fragment_file = NULL
    /\ result = "none"
    /\ published = {}
    /\ upstream = <<>>
    /\ has_new_schema \in BOOLEAN
    /\ hpc = "idle"
    /\ member_count = 0
    /\ offset = 0
    /\ stats = NoStats
    /\ harvested = 0
    /\ edits = 0
    /\ sources = StaticSource
    /\ attempt = 0
    /\ io = <<>>
    /\ exit_code = NULL
    /\ ldes_exit_code = NULL
    /\ runs = [r \in Runs |-> IdleRun]
    /\ SoundInputs
    /\ arg \in Batches
    /\ ret = NoReturn
    /\ interrupted_at = NULL

NextMerge == CallMerge

SpecMerge == InitMerge /\ [][NextMerge]_vars

----------------------------------------------------------------------------
(* Claims about the merge of one batch *)

\* The rows of the batch for one property of one concept that are not
\* blank, in batch order.
VariantsOf(concept, property) ==
    SelectSeq(arg, LAMBDA b : /\ b.concept = concept
                              /\ b.property = property
                              /\ ~IsBlank(b.value))

\* The ids of the rows of term_fields for one property of one concept.
TermFieldsOf(concept, property) ==
    {k \in 1..Len(term_fields) :
        /\ term_fields[k].field_uri = property
        /\ \E t \in 1..Len(terms) :
              terms[t].uri = concept /\ term_fields[k].term_id = t}

\* C27: after the merge of a batch into a store without term fields,
\* where table translations has the columns status and source: for every
\* property of a concept with several non-blank rows in the batch there is
\* exactly one row of term_fields, its original_value is the value of the
\* first of those rows, and every one of those rows is there as a
\* translation of that field with the row's language and value, status
\* original and source rdf-ingest.
C27_FirstWinsAllKept ==
    (ret.done /\ has_new_schema) =>
        \A c \in BatchConcepts, p \in BatchProperties :
            LET variants == VariantsOf(c, p)
            IN  Len(variants) >= 2 =>
                  /\ Cardinality(TermFieldsOf(c, p)) = 1
                  /\ \A k \in TermFieldsOf(c, p) :
                        /\ term_fields[k].original_value = variants[1].value
                        /\ \A n \in 1..Len(variants) :
                              \E i \in 1..Len(translations) :
                                 /\ translations[i].term_field_id = k
                                 /\ translations[i].language = variants[n].language
                                 /\ translations[i].value = variants[n].value
                                 /\ translations[i].status = "original"
                                 /\ translations[i].source = "rdf-ingest"

\* The store the merge of the batch without its blank rows leaves.
WithoutBlanks ==
    insert_results([terms |-> <<>>, term_fields |-> <<>>, translations |-> <<>>,
                    stats |-> NoStats, has_new_schema |-> has_new_schema],
                   SelectSeq(arg, LAMBDA b : ~IsBlank(b.value)))

\* Rows of term_fields with the URI of their term in place of its id: a
\* concept whose rows are all blank still gets its row of terms.
FieldsByUri(term_rows, field_rows) ==
    [k \in 1..Len(field_rows) |->
        [uri |-> term_rows[field_rows[k].term_id].uri,
         field_uri |-> field_rows[k].field_uri,
         original_value |-> field_rows[k].original_value]]

\* C29: after the merge of a batch no row of term_fields has an empty or
\* whitespace-only original_value and no row of translations has such a
\* value, and term_fields and translations are what the merge of the batch
\* without its blank rows leaves: a blank row adds no row to either table
\* and takes the place of no value, first of its concept and property or
\* not.
C29_BlankNeverOffered ==
    ret.done =>
        /\ \A k \in 1..Len(term_fields) : ~IsBlank(term_fields[k].original_value)
        /\ \A i \in 1..Len(translations) : ~IsBlank(translations[i].value)
        /\ FieldsByUri(terms, term_fields)
              = FieldsByUri(WithoutBlanks.terms, WithoutBlanks.term_fields)
        /\ translations = WithoutBlanks.translations

\* A batch whose first row is blank and whose second row, of the same
\* concept and property, is not was merged: the field has the second
\* row's value, and a batch of blank rows alone leaves both tables empty.
C29_Witness ==
    /\ ret.done
    /\ has_new_schema
    /\ Len(arg) = 2
    /\ arg[1] = Binding("c1", "definition", " ", "en")
    /\ arg[2] = Binding("c1", "definition", "sea", "en")
    /\ Len(term_fields) = 1
    /\ term_fields[1].original_value = "sea"
    /\ Len(translations) = 1
    /\ translations[1].value = "sea"

----------------------------------------------------------------------------
(* Claims about harvests of a vocabulary that changes *)

\* The rows of translations with status original for one field and
\* language.
OriginalsOf(term_field_id, language) ==
    {i \in 1..Len(translations) :
        /\ translations[i].status = "original"
        /\ translations[i].term_field_id = term_field_id
        /\ translations[i].language = language}

\* C28: at every point of every sequence of harvests and of changes of
\* upstream values, table translations has at most one row with status
\* original for each term field and language.
C28_OneOriginalPerLanguage ==
    \A i, j \in 1..Len(translations) :
        (/\ translations[i].status = "original"
         /\ translations[j].status = "original"
         /\ translations[i].term_field_id = translations[j].term_field_id
         /\ translations[i].language = translations[j].language)
        => i = j

\* A value changed upstream after it was harvested and the collection was
\* harvested again to its end: the row of the field and language holds
\* the value of the first harvest, which is no longer the upstream one.
C28_Witness ==
    /\ edits = 1
    /\ harvested >= 1
    /\ hpc = "idle"
    /\ \E k \in 1..Len(upstream), f \in 1..Len(term_fields) :
          /\ ~IsBlank(upstream[k].value)
          /\ term_fields[f].field_uri = upstream[k].property
          /\ terms[term_fields[f].term_id].uri = upstream[k].concept
          /\ Cardinality(OriginalsOf(f, upstream[k].language)) = 1
          /\ \A i \in OriginalsOf(f, upstream[k].language) :
                translations[i].value # upstream[k].value
          /\ \A n \in 1..Len(upstream) :
                (upstream[n].concept = upstream[k].concept
                 /\ upstream[n].property = upstream[k].property
                 /\ upstream[n].language = upstream[k].language) => n = k

----------------------------------------------------------------------------
(* Claims about the rows a harvest fetches *)

\* The rows of the collection, by their place in the order of the data
\* query, that the batches of a history fetched.
RowsFetched(log) ==
    {k \in 1..Len(upstream) :
        \E e \in EventsOf(log, "data") :
            /\ log[e].response = "ok"
            /\ log[e].offset < k
            /\ k <= log[e].offset + log[e].limit}

\* C30: when a harvest has ended with exit code 0, every row the data
\* query yields for the collection was fetched in one of its batches and
\* merged, whatever the number of rows per concept.
C30_HarvestComplete ==
    (hpc = "idle" /\ exit_code = 0) => RowsFetched(io) = 1..Len(upstream)

----------------------------------------------------------------------------
(* Claims about rows that are never published *)

\* A fragment of the directory dir holds row i of table translations: the
\* record of the row's concept has, under the row's field, the row's value
\* in the row's language.
InFragment(i, dir) ==
    \E f \in dir :
        \E k \in 1..Len(f.ldes_data) :
            /\ f.ldes_data[k].concept = TermOf(translations[i]).uri
            /\ \E m \in 1..Len(f.ldes_data[k].fields) :
                  /\ f.ldes_data[k].fields[m].field_uri
                        = term_fields[translations[i].term_field_id].field_uri
                  /\ \E n \in 1..Len(f.ldes_data[k].fields[m].values) :
                        f.ldes_data[k].fields[m].values[n]
                          = [value |-> translations[i].value,
                             language |-> translations[i].language]

\* C31: when publish runs follow one another, each running to its end, a
\* run that is skipped or writes its fragment leaves every row of the
\* source that was in review when it started in some fragment of the feed,
\* also a row that came into review after the run before with the cursor
\* as its time.
C31_NoApprovedRowLost ==
    [][(PublishSkipped \/ (PublishFragment /\ WritesFragment))
          => \A i \in ReviewRows(SourceId) : InFragment(i, files')]_vars

====
